---- MODULE Spec2Model ----
(***************************************************************************)
(* Model of vis-core (Rahix/visualizer2).                                  *)
(*                                                                         *)
(* SpecFrames : the frame-synchronisation layer of vis-core/src/frames.rs: *)
(*              Frames::from_vis, Frames::detach_analyzer, Frames::iter,   *)
(*              FramesIter::next, Frame::info and the background analyzer  *)
(*              thread, connected by the three-slot latest-value buffer    *)
(*              (triple_buffer::Input / Output) the code is built on.      *)
(*                                                                         *)
(* Atomic operations on back_info (swap AcqRel, load) are single steps of  *)
(* an interleaving; plain writes of a result field and plain reads of a    *)
(* field by the info callback are single steps as well, so that a result   *)
(* made of two fields can be observed half-written if the writer and the   *)
(* reader ever share a slot.                                               *)
(***************************************************************************)
EXTENDS Integers, Sequences, FiniteSets, TLC

(* ------------------------------ bounds -------------------------------- *)
\* analyzer invocations modelled (the analyzer loop itself is endless)
MaxCycles == 4
\* next() calls modelled per program run (the iterator itself is endless)
MaxFrames == 3
\* largest conversions-per-second value fed to from_vis / detach_analyzer
MaxNum == 1

VARIABLES
    \* ---- triple_buffer shared state and the two handles ----
    buffers,      \* the three slots, each holding a value of R
    back_info,    \* atomic: index of the back slot and its dirty bit
    input_idx,    \* Input<R>: the slot the writer owns
    output_idx,   \* Output<R>: the slot the reader owns
    \* ---- Frames / FramesIter / Frame ----
    analyzer,     \* Frames.analyzer: "some" (A, Input) or "none" (taken)
    iter_alive,   \* a FramesIter borrows the Frames
    iter_frame,   \* FramesIter.frame
    frame_ret,    \* Frame.frame of the Frame returned last (-1: no Frame yet)
    pcC,          \* position of the consumer (owning) thread
    cur_volume,   \* field volume as read by the running info callback
    seen,         \* value of R observed by the last completed info callback
    \* ---- background analyzer thread ----
    pcA,          \* position of the analyzer thread ("none": not spawned)
    cycle,        \* number of analyzer invocations started so far
    \* ---- history (not program state) ----
    spawned,      \* number of analyzer threads ever spawned
    calls,        \* next() calls made on the current FramesIter
    total_calls,  \* next() calls made in this run
    lastPub,      \* cycle of the most recent completed publish (0: none)
    rdFresh,      \* lastPub at the point the running/last read fixed its slot
    retained,     \* lastPub at the return of the two Frames the consumer
                  \* keeps: <<the first of this run, the one returned last>>
    rd_frame,     \* which of the two the running info call is made on
    overwritten,  \* the cycles whose published result was replaced in the
                  \* back slot by a later publish before any read took it
    \* ---- one analyzer step on the shared SampleBuffer ----
    pcS,          \* the operation of the step the analyzer thread is in, and
                  \* where in it: "want" (inside lock()), "hold", "rest"
    views         \* history: the buffer as each operation of the running
                  \* step found it under the lock

fvars == <<buffers, back_info, input_idx, output_idx, analyzer, iter_alive,
           iter_frame, frame_ret, pcC, cur_volume, seen, pcA, cycle, spawned,
           calls, total_calls, lastPub, rdFresh, retained, rd_frame,
           overwritten, pcS, views>>

\* history of the Frames handed out
shist == <<pcS, views>>

fhist == <<retained, rd_frame, overwritten, shist>>

    \* ---- SampleBuffer (analyzer/samples.rs) ----
VARIABLES
    size,         \* SampleBuffer::new(size, _): the capacity N
    buf,          \* the VecDeque behind the mutex, oldest frame first
    lock,         \* owner of the parking_lot mutex (Free or a thread)
    debug_assertions, \* build profile: overflow checks on / off
    \* ---- capture threads inside push ----
    pcP,          \* per pusher: "idle", "loop" (holds the lock), "panicked"
    new,          \* per pusher: the part of the slice not yet pushed
    nextId,       \* serial number of the next frame handed to push
    \* ---- the thread iterating (FourierAnalyzer::analyze) ----
    pcR,          \* "idle", "iter" (SampleIterator alive), "ended", "panicked"
    it_size,      \* size argument of the running iter call
    it_index,     \* SampleIterator.index
    it_down,      \* SampleIterator.downsample
    input,        \* FourierAnalyzer.input[0], input[1]
    \* ---- history (not program state) ----
    yielded,      \* frames the running iterator has returned so far
    slices,       \* every slice passed to push, in order of lock acquisition
    snap          \* the buffer as it was when the running iter call locked it

bvars == <<size, buf, lock, debug_assertions, pcP, new, nextId, pcR, it_size,
           it_index, it_down, input, yielded, slices, snap>>

    \* ---- BeatDetector (analyzer/beat.rs) ----
VARIABLES
    decay,           \* BeatDetector.decay: the per-call coefficient
    trigger,         \* BeatDetector.trigger
    last_volume,     \* BeatDetector.last_volume
    last_delta,      \* BeatDetector.last_delta
    last_beat_delta, \* BeatDetector.last_beat_delta
    last_peak,       \* BeatDetector.last_peak
    last_valley,     \* BeatDetector.last_valley
    isbeat,          \* the value the last detect call returned
    \* ---- history (not program state) ----
    volumes,         \* the volume measured by every detect call, in order
    peak_writes,     \* number of assignments to last_peak so far
    valley_writes    \* number of assignments to last_valley so far

dvars == <<decay, trigger, last_volume, last_delta, last_beat_delta,
           last_peak, last_valley, isbeat, volumes, peak_writes,
           valley_writes>>

    \* ---- Spectrum (analyzer/spectrum.rs) ----
VARIABLES
    buckets,         \* Spectrum.buckets
    width,           \* Spectrum.width
    lowest,          \* Spectrum.lowest
    highest,         \* Spectrum.highest
    op,              \* the method called on the spectrum and its arguments
    ret              \* what the call returned, or that it panicked

svars == <<buckets, width, lowest, highest, op, ret>>

    \* ---- FourierAnalyzer (analyzer/fourier.rs) and its SampleBuffer ----
VARIABLES
    rate,            \* SampleBuffer.rate of the buffer handed to the call
    fourier,         \* FourierAnalyzer.length, .downsample and .rate
    output,          \* FourierAnalyzer.output
    spectra,         \* FourierAnalyzer.spectra[0], spectra[1]
    average,         \* FourierAnalyzer.average
    pcF,             \* position of the thread inside analyze
    \* ---- history (not program state) ----
    analyzed,        \* number of analyze calls started
    locks,           \* number of times the buffer lock was taken
    good             \* the spectra as the last successful analyze left them

avars == <<rate, fourier, output, spectra, average, pcF, analyzed, locks,
           good>>

\* the state of every component other than Frames and SampleBuffer
xvars == <<dvars, svars, avars>>

vars == <<fvars, bvars, xvars>>

(* ----------------------------- the result R ---------------------------- *)
\* A consumer-defined result with two fields; the analyzer closure writes
\* both in place on every invocation (lib.rs example: info.volume = ..,
\* info.beat = ..).  Cycle c stores c in both, so a value mixing two cycles
\* has volume # beat.
R(c) == [volume |-> c, beat |-> c]

Initial == R(0)

None == -1

(* --------------------------- triple buffer ----------------------------- *)
\* TripleBuffer::new(&initial).split(): three clones of the initial value,
\* back slot 0 clean, writer owns slot 1, reader owns slot 2.
TripleBuffer_new_back(initial) ==
    [buffers    |-> [i \in 0..2 |-> initial],
     back_info  |-> [idx |-> 0, dirty |-> FALSE],
     input_idx  |-> 0,
     output_idx |-> 2]
TripleBuffer_new(initial) ==
    [buffers    |-> [i \in 0..2 |-> initial],
     back_info  |-> [idx |-> 0, dirty |-> FALSE],
     input_idx  |-> 1,
     output_idx |-> 2]

TB == [buffers |-> buffers, back_info |-> back_info,
       input_idx |-> input_idx, output_idx |-> output_idx]

SetTB0(t) ==
    /\ buffers = t.buffers
    /\ back_info = t.back_info
    /\ input_idx = t.input_idx
    /\ output_idx = t.output_idx

SetTB(t) ==
    /\ buffers' = t.buffers
    /\ back_info' = t.back_info
    /\ input_idx' = t.input_idx
    /\ output_idx' = t.output_idx

\* Input::publish: back_info.swap(input_idx | DIRTY); the former back slot
\* becomes the input slot.  One atomic read-modify-write.
publish_stale(t) ==
    [t EXCEPT !.back_info = [idx |-> t.input_idx, dirty |-> TRUE]]
publish(t) ==
    [t EXCEPT !.back_info = [idx |-> t.input_idx, dirty |-> TRUE],
              !.input_idx = t.back_info.idx]

\* the results a publish on t replaces unread: the back slot still dirty
\* means no Output::update has taken what the previous publish left there
replaced(t) ==
    IF t.back_info.dirty THEN {t.buffers[t.back_info.idx].volume} ELSE {}

update_keep(t) ==
    [t EXCEPT !.back_info = [idx |-> t.back_info.idx, dirty |-> FALSE]]
\* Output::update, second half: back_info.swap(output_idx); the former back
\* slot becomes the output slot, the dirty bit is cleared.
update_swap(t) ==
    [t EXCEPT !.back_info = [idx |-> t.output_idx, dirty |-> FALSE],
              !.output_idx = t.back_info.idx]

\* the analyzer closure writing one field of *info.input_buffer()
write_field(t, f, c) ==
    [t EXCEPT !.buffers[t.input_idx] = [@ EXCEPT ![f] = c]]

\* a whole analyzer invocation on the calling thread
analyzer_call(t, c) == write_field(write_field(t, "volume", c), "beat", c)

(* ---------------------------- sample buffer ---------------------------- *)
\* capture threads that may call push concurrently
NumPushers == 2
\* largest capacity a SampleBuffer is created with
MaxSize == 4
\* longest slice handed to one push call (longer than any capacity)
MaxSlice == MaxSize + 1
\* frames pushed in one run, and push calls made in one run
MaxPushed == 7
MaxPushes == 3
\* largest size / downsample argument of iter
MaxIterSize == MaxSize
MaxDown == 3

Pushers == 1..NumPushers
Free == 0
Reader == NumPushers + 1

\* a stereo frame [l, r]; frame 0 is the zero frame [0.0; 2] of new()
Frame(k) == <<k, 0 - k>>

\* lock.len() etc.
len(q) == Len(q)

\* the state of the sample buffer while SpecFrames runs (unused there)
BufIdle ==
    /\ size = 0
    /\ buf = <<>>
    /\ lock = Free
    /\ debug_assertions = FALSE
    /\ pcP = [p \in Pushers |-> "idle"]
    /\ new = [p \in Pushers |-> <<>>]
    /\ nextId = 1
    /\ pcR = "idle"
    /\ it_size = 0
    /\ it_index = 0
    /\ it_down = 0
    /\ input = <<<<>>, <<>>>>
    /\ yielded = <<>>
    /\ slices = <<>>
    /\ snap = <<>>

\* no BeatDetector is in use
BeatIdle ==
    /\ decay = <<0, 1>>
    /\ trigger = <<0, 1>>
    /\ last_volume = 0
    /\ last_delta = 0
    /\ last_beat_delta = <<0, 1>>
    /\ last_peak = 0
    /\ last_valley = 0
    /\ isbeat = FALSE
    /\ volumes = <<>>
    /\ peak_writes = 0
    /\ valley_writes = 0

\* no Spectrum is in use
SpectrumIdle ==
    /\ buckets = <<>>
    /\ width = <<0, 1>>
    /\ lowest = <<0, 1>>
    /\ highest = <<0, 1>>
    /\ op = [name |-> "none"]
    /\ ret = [ok |-> TRUE]

\* no FourierAnalyzer is in use
AnalyzerIdle ==
    /\ fourier = [length |-> 0]
    /\ output = <<>>
    /\ spectra = <<>>
    /\ average = <<>>
    /\ pcF = "idle"
    /\ analyzed = 0
    /\ locks = 0
    /\ good = <<>>

FourierIdle == rate = 0 /\ AnalyzerIdle

\* the components other than Frames and SampleBuffer are not in use
OthersIdle == BeatIdle /\ SpectrumIdle /\ FourierIdle

(* ------------------------------- Init ---------------------------------- *)
\* Frames::from_vis, lines 62-69: the triple buffer is split, the analyzer
\* closure and the Input handle sit in Frames.analyzer, no thread exists.
FramesNew ==
    /\ SetTB0(TripleBuffer_new(Initial))
    /\ analyzer = "some"
    /\ iter_alive = FALSE
    /\ iter_frame = 0
    /\ frame_ret = None
    /\ pcC = "new"
    /\ cur_volume = 0
    /\ seen = Initial
    /\ pcA = "none"
    /\ cycle = 0
    /\ spawned = 0
    /\ calls = 0
    /\ total_calls = 0
    /\ lastPub = 0
    /\ rdFresh = 0
    /\ retained = <<>>
    /\ rd_frame = None
    /\ overwritten = {}
    /\ pcS = [op |-> 0, at |-> "idle"]
    /\ views = <<>>

InitFrames == FramesNew /\ BufIdle /\ OthersIdle

(* ------------------------- consumer-side actions ----------------------- *)
\* Frames::detach_analyzer(num): take() the analyzer (unwrap panics when it
\* was taken before), compute 1000000000 / num (panics for num = 0, after
\* the take), spawn the analyzer thread.
Detach_keep(num) ==
    IF analyzer = "none"
    THEN /\ pcC' = "panicked"
         /\ UNCHANGED <<analyzer, pcA, spawned>>
    ELSE IF num = 0
    THEN /\ analyzer' = "none"
         /\ pcC' = "panicked"
         /\ UNCHANGED <<pcA, spawned>>
    ELSE /\ analyzer' = "some"
         /\ pcA' = "start"
         /\ spawned' = spawned + 1
         /\ pcC' = "run"
Detach(num) ==
    IF analyzer = "none"
    THEN /\ pcC' = "panicked"
         /\ UNCHANGED <<analyzer, pcA, spawned>>
    ELSE IF num = 0
    THEN /\ analyzer' = "none"
         /\ pcC' = "panicked"
         /\ UNCHANGED <<pcA, spawned>>
    ELSE /\ analyzer' = "none"
         /\ pcA' = "start"
         /\ spawned' = spawned + 1
         /\ pcC' = "run"

\* Frames::from_vis, lines 71-79.  async: Visualizer.async_analyzer,
\* conf: CONFIG.get("audio.conversions"); None or a number.
from_vis(async, conf) ==
    /\ pcC = "new"
    /\ IF async # None
       THEN IF async # 0
            THEN Detach(async)
            ELSE /\ pcC' = "run"
                 /\ UNCHANGED <<analyzer, pcA, spawned>>
       ELSE IF conf # None
            THEN Detach(conf)
            ELSE /\ pcC' = "run"
                 /\ UNCHANGED <<analyzer, pcA, spawned>>
    /\ UNCHANGED <<buffers, back_info, input_idx, output_idx, iter_alive,
                   iter_frame, frame_ret, cur_volume, seen, cycle, calls,
                   total_calls, lastPub, rdFresh>>
    /\ UNCHANGED <<fhist, bvars, xvars>>

\* Frames::detach_analyzer called by the owner of the Frames (it is pub and
\* takes &mut self, so no FramesIter may be alive).
detach_analyzer(num) ==
    /\ pcC = "run"
    /\ ~iter_alive
    /\ Detach(num)
    /\ UNCHANGED <<buffers, back_info, input_idx, output_idx, iter_alive,
                   iter_frame, frame_ret, cur_volume, seen, cycle, calls,
                   total_calls, lastPub, rdFresh>>
    /\ UNCHANGED <<fhist, bvars, xvars>>

\* Frames::iter, line 117: frame: 0, whatever an earlier FramesIter of this
\* Frames has counted up to (f).
first_frame_resumed(f) == f
first_frame(f) == 0

\* Frames::iter: a new FramesIter, frame: 0.
Frames_iter ==
    /\ pcC = "run"
    /\ ~iter_alive
    /\ iter_alive' = TRUE
    /\ iter_frame' = first_frame(iter_frame)
    /\ calls' = 0
    /\ UNCHANGED <<buffers, back_info, input_idx, output_idx, analyzer,
                   frame_ret, pcC, cur_volume, seen, pcA, cycle, spawned,
                   total_calls, lastPub, rdFresh>>
    /\ UNCHANGED <<fhist, bvars, xvars>>

\* the FramesIter goes out of scope (break out of the for loop)
FramesIter_drop ==
    /\ pcC = "run"
    /\ iter_alive
    /\ iter_alive' = FALSE
    /\ UNCHANGED <<buffers, back_info, input_idx, output_idx, analyzer,
                   iter_frame, frame_ret, pcC, cur_volume, seen, pcA, cycle,
                   spawned, calls, total_calls, lastPub, rdFresh>>
    /\ UNCHANGED <<fhist, bvars, xvars>>

\* FramesIter::next.  With the analyzer still in place (inline mode) it runs
\* the analyzer on the input buffer and publishes, all on this thread; then
\* it hands out Frame { frame: self.frame } and increments self.frame.
next_frame_pre(f) == f + 1
next_frame(f) == f

next_nopublish(t, c) == analyzer_call(t, c)
next_inline(t, c) == publish(analyzer_call(t, c))

FramesIter_next ==
    /\ pcC = "run"
    /\ iter_alive
    /\ total_calls < MaxFrames
    /\ IF analyzer = "some"
       THEN /\ cycle < MaxCycles
            /\ cycle' = cycle + 1
            /\ SetTB(next_inline(TB, cycle + 1))
            /\ lastPub' = IF back_info'.dirty /\ back_info'.idx = input_idx
                          THEN cycle + 1 ELSE lastPub
            /\ overwritten' = overwritten \cup replaced(TB)
       ELSE UNCHANGED <<buffers, back_info, input_idx, output_idx, cycle,
                        lastPub, overwritten>>
    /\ frame_ret' = next_frame(iter_frame)
    /\ iter_frame' = iter_frame + 1
    /\ calls' = calls + 1
    /\ total_calls' = total_calls + 1
    /\ retained' = IF retained = <<>> THEN <<lastPub', lastPub'>>
                                       ELSE <<retained[1], lastPub'>>
    /\ UNCHANGED <<analyzer, iter_alive, pcC, cur_volume, seen, pcA, spawned,
                   rdFresh, rd_frame, shist>>
    /\ UNCHANGED <<bvars, xvars>>

\* Frame.info is a clone of the Rc around the one Output of the Frames
\* (line 153), so info() reads what the Output holds when it is called
\* (shared), not a copy made when the Frame was returned (kept).
Frame_info_kept(shared, kept) == kept
Frame_info(shared, kept) == shared

\* Frame::info = f(self.info.borrow_mut().read()), called on the first
\* Frame of this run (k = 1) or on the one returned last (k = 2); a Frame
\* stays usable after later next() calls.
\* Output::read begins with update(): load the dirty bit of back_info ...
info_load_always(k) ==
    /\ pcC = "run"
    /\ k \in 1..Len(retained)
    /\ rd_frame' = k
    /\ pcC' = "rd_swap"
    /\ UNCHANGED rdFresh
    /\ UNCHANGED <<buffers, back_info, input_idx, output_idx, analyzer,
                   iter_alive, iter_frame, frame_ret, cur_volume, seen, pcA,
                   cycle, spawned, calls, total_calls, lastPub, retained,
                   overwritten, shist>>
    /\ UNCHANGED <<bvars, xvars>>
info_load(k) ==
    /\ pcC = "run"
    /\ k \in 1..Len(retained)
    /\ rd_frame' = k
    /\ IF back_info.dirty
       THEN /\ pcC' = "rd_swap"
            /\ UNCHANGED rdFresh
       ELSE /\ pcC' = "cb_volume"
            /\ rdFresh' = lastPub
    /\ UNCHANGED <<buffers, back_info, input_idx, output_idx, analyzer,
                   iter_alive, iter_frame, frame_ret, cur_volume, seen, pcA,
                   cycle, spawned, calls, total_calls, lastPub, retained,
                   overwritten, shist>>
    /\ UNCHANGED <<bvars, xvars>>

\* ... and, when it was set, swap the output slot with the back slot.
\* read() then returns a reference to the output slot.
info_swap ==
    /\ pcC = "rd_swap"
    /\ SetTB(update_swap(TB))
    /\ pcC' = "cb_volume"
    /\ rdFresh' = lastPub
    /\ UNCHANGED <<analyzer, iter_alive, iter_frame, frame_ret, cur_volume, seen,
                   pcA, cycle, spawned, calls, total_calls, lastPub>>
    /\ UNCHANGED <<fhist, bvars, xvars>>

\* the callback f(&R) reads the fields of the referenced slot one by one
info_cb_volume ==
    /\ pcC = "cb_volume"
    /\ cur_volume' =
          Frame_info(buffers[output_idx], R(retained[rd_frame])).volume
    /\ pcC' = "cb_beat"
    /\ UNCHANGED <<buffers, back_info, input_idx, output_idx, analyzer,
                   iter_alive, iter_frame, frame_ret, seen, pcA, cycle,
                   spawned, calls, total_calls, lastPub, rdFresh>>
    /\ UNCHANGED <<fhist, bvars, xvars>>

info_cb_beat ==
    /\ pcC = "cb_beat"
    /\ seen' = [volume |-> cur_volume,
                beat |-> Frame_info(buffers[output_idx],
                                    R(retained[rd_frame])).beat]
    /\ pcC' = "run"
    /\ rd_frame' = None
    /\ UNCHANGED <<buffers, back_info, input_idx, output_idx, analyzer,
                   iter_alive, iter_frame, frame_ret, cur_volume, pcA, cycle,
                   spawned, calls, total_calls, lastPub, rdFresh, retained,
                   overwritten, shist>>
    /\ UNCHANGED <<bvars, xvars>>

(* ------------------------ analyzer-thread actions ---------------------- *)
\* frames.rs 94-108: loop { analyzer(info.input_buffer(), &buffer);
\*                          info.publish(); sleep the rest of the period }
an_write_volume ==
    /\ pcA = "start"
    /\ cycle < MaxCycles
    /\ cycle' = cycle + 1
    /\ SetTB(write_field(TB, "volume", cycle + 1))
    /\ pcA' = "w_beat"
    /\ UNCHANGED <<analyzer, iter_alive, iter_frame, frame_ret, pcC, cur_volume,
                   seen, spawned, calls, total_calls, lastPub, rdFresh>>
    /\ UNCHANGED <<fhist, bvars, xvars>>

an_write_beat ==
    /\ pcA = "w_beat"
    /\ SetTB(write_field(TB, "beat", cycle))
    /\ pcA' = "publish"
    /\ UNCHANGED <<analyzer, iter_alive, iter_frame, frame_ret, pcC, cur_volume,
                   seen, cycle, spawned, calls, total_calls, lastPub,
                   rdFresh>>
    /\ UNCHANGED <<fhist, bvars, xvars>>

an_publish_locked ==
    /\ pcA = "publish"
    /\ pcC \notin {"cb_volume", "cb_beat"}
    /\ SetTB(publish(TB))
    /\ lastPub' = cycle
    /\ pcA' = "timing"
    /\ overwritten' = overwritten \cup replaced(TB)
    /\ UNCHANGED <<analyzer, iter_alive, iter_frame, frame_ret, pcC, cur_volume,
                   seen, cycle, spawned, calls, total_calls, rdFresh>>
    /\ UNCHANGED <<retained, rd_frame, shist, bvars, xvars>>
an_publish ==
    /\ pcA = "publish"
    /\ SetTB(publish(TB))
    /\ lastPub' = cycle
    /\ pcA' = "timing"
    /\ overwritten' = overwritten \cup replaced(TB)
    /\ UNCHANGED <<analyzer, iter_alive, iter_frame, frame_ret, pcC, cur_volume,
                   seen, cycle, spawned, calls, total_calls, rdFresh>>
    /\ UNCHANGED <<retained, rd_frame, shist, bvars, xvars>>

\* duration < conv_time: sleep the remainder; otherwise re-run at once
an_sleep ==
    /\ pcA = "timing"
    /\ pcA' = "sleep"
    /\ UNCHANGED <<buffers, back_info, input_idx, output_idx, analyzer,
                   iter_alive, iter_frame, frame_ret, pcC, cur_volume, seen,
                   cycle, spawned, calls, total_calls, lastPub, rdFresh>>
    /\ UNCHANGED <<fhist, bvars, xvars>>

\* lines 94-108: loop { .. } without break or return
an_loop_stop ==
    /\ pcA \in {"timing", "sleep"}
    /\ pcA' = IF pcC = "dropped" THEN "done" ELSE "start"
    /\ UNCHANGED <<buffers, back_info, input_idx, output_idx, analyzer,
                   iter_alive, iter_frame, frame_ret, pcC, cur_volume, seen,
                   cycle, spawned, calls, total_calls, lastPub, rdFresh>>
    /\ UNCHANGED <<fhist, bvars, xvars>>
an_loop ==
    /\ pcA \in {"timing", "sleep"}
    /\ pcA' = "start"
    /\ UNCHANGED <<buffers, back_info, input_idx, output_idx, analyzer,
                   iter_alive, iter_frame, frame_ret, pcC, cur_volume, seen,
                   cycle, spawned, calls, total_calls, lastPub, rdFresh>>
    /\ UNCHANGED <<fhist, bvars, xvars>>

Nums == 0..MaxNum

NextFrames ==
    \/ \E async \in {None} \cup Nums, conf \in {None} \cup Nums :
          from_vis(async, conf)
    \/ \E num \in Nums : detach_analyzer(num)
    \/ Frames_iter
    \/ FramesIter_drop
    \/ FramesIter_next
    \/ \E k \in 1..2 : info_load(k)
    \/ info_swap
    \/ info_cb_volume
    \/ info_cb_beat
    \/ an_write_volume
    \/ an_write_beat
    \/ an_publish
    \/ an_sleep
    \/ an_loop

SpecFrames == InitFrames /\ [][NextFrames]_vars

(* ------------------- the detached analyzer: SpecDetached --------------- *)
\* The Frames goes out of scope on the consumer thread (no FramesIter
\* borrows it any more): its Output and, in inline mode, its analyzer are
\* dropped.  Frames has no Drop impl and keeps no JoinHandle (the handle
\* returned by spawn is discarded at line 109), so the thread is neither
\* joined nor told.
Frames_drop ==
    /\ pcC = "run"
    /\ ~iter_alive
    /\ pcC' = "dropped"
    /\ UNCHANGED <<buffers, back_info, input_idx, output_idx, analyzer,
                   iter_alive, iter_frame, frame_ret, cur_volume, seen, pcA,
                   cycle, spawned, calls, total_calls, lastPub, rdFresh>>
    /\ UNCHANGED <<fhist, bvars, xvars>>

\* the analyzer invocations after the MaxCycles-th: the loop goes on, the
\* invocation counter is held at MaxCycles
an_write_volume_on ==
    /\ pcA = "start"
    /\ cycle = MaxCycles
    /\ SetTB(write_field(TB, "volume", cycle))
    /\ pcA' = "w_beat"
    /\ UNCHANGED <<analyzer, iter_alive, iter_frame, frame_ret, pcC, cur_volume,
                   seen, cycle, spawned, calls, total_calls, lastPub, rdFresh>>
    /\ UNCHANGED <<fhist, bvars, xvars>>

\* the steps of the thread spawned at lines 92-94
AnalyzerThread ==
    \/ an_write_volume
    \/ an_write_volume_on
    \/ an_write_beat
    \/ an_publish
    \/ an_sleep
    \/ an_loop

NextDetached ==
    \/ \E async \in {None} \cup Nums, conf \in {None} \cup Nums :
          from_vis(async, conf)
    \/ \E num \in Nums : detach_analyzer(num)
    \/ Frames_iter
    \/ FramesIter_drop
    \/ FramesIter_next
    \/ Frames_drop
    \/ AnalyzerThread

\* the operating system schedules the spawned thread again and again, and
\* thread::sleep returns
SpecDetached ==
    InitFrames /\ [][NextDetached]_vars /\ WF_vars(AnalyzerThread)

(* -------------------- a failing analyzer step: SpecPanic --------------- *)
\* The analyzer closure panics inside the thread loop (lines 94-97), before
\* its first write or between its writes to *info.input_buffer().  The
\* panic unwinds the closure given to spawn: the loop never reaches
\* info.publish(), the thread ends, and its JoinHandle was discarded at
\* line 109, so nobody is told.
an_panic_publish ==
    /\ pcA \in {"start", "w_beat"}
    /\ pcA' = "panicked"
    /\ SetTB(publish(TB))
    /\ UNCHANGED <<analyzer, iter_alive, iter_frame, frame_ret, pcC, cur_volume,
                   seen, cycle, spawned, calls, total_calls, lastPub, rdFresh>>
    /\ UNCHANGED <<fhist, bvars, xvars>>
an_panic ==
    /\ pcA \in {"start", "w_beat"}
    /\ pcA' = "panicked"
    /\ UNCHANGED <<buffers, back_info, input_idx, output_idx, analyzer,
                   iter_alive, iter_frame, frame_ret, pcC, cur_volume, seen,
                   cycle, spawned, calls, total_calls, lastPub, rdFresh>>
    /\ UNCHANGED <<fhist, bvars, xvars>>

\* FramesIter::next in inline mode, lines 143-146: the analyzer closure
\* panics after its first write; the panic unwinds through next() into the
\* caller, before info.publish() and before a Frame is made.
next_panic ==
    /\ pcC = "run"
    /\ iter_alive
    /\ total_calls < MaxFrames
    /\ analyzer = "some"
    /\ cycle < MaxCycles
    /\ cycle' = cycle + 1
    /\ SetTB(write_field(TB, "volume", cycle + 1))
    /\ pcC' = "panicked"
    /\ UNCHANGED <<analyzer, iter_alive, iter_frame, frame_ret, cur_volume,
                   seen, pcA, spawned, calls, total_calls, lastPub, rdFresh>>
    /\ UNCHANGED <<fhist, bvars, xvars>>

NextPanic ==
    \/ NextFrames
    \/ an_panic
    \/ next_panic

SpecPanic == InitFrames /\ [][NextPanic]_vars

(* ======================= SampleBuffer: SpecBuf ======================== *)
RECURSIVE Flatten(_)
Flatten(ss) == IF ss = <<>> THEN <<>> ELSE Head(ss) \o Flatten(Tail(ss))

Zeros(n) == [i \in 1..n |-> Frame(0)]

\* the last n elements of q (n <= Len(q))
LastN(q, n) == SubSeq(q, Len(q) - n + 1, Len(q))

\* SampleBuffer::new(size, rate): size zero frames; nobody holds the lock.
\* The build profile decides whether usize underflow panics or wraps.
InitBuf ==
    /\ FramesNew
    /\ size \in 0..MaxSize
    /\ buf = Zeros(size)
    /\ lock = Free
    /\ debug_assertions \in BOOLEAN
    /\ pcP = [p \in Pushers |-> "idle"]
    /\ new = [p \in Pushers |-> <<>>]
    /\ nextId = 1
    /\ pcR = "idle"
    /\ it_size = 0
    /\ it_index = 0
    /\ it_down = 0
    /\ input = <<<<>>, <<>>>>
    /\ yielded = <<>>
    /\ slices = <<>>
    /\ snap = <<>>
    /\ OthersIdle

\* SampleBuffer::push, line 62: self.buf.lock() returns once the mutex is
\* free.  n: the length of the slice; its frames get fresh serial numbers.
push_nolock(p, n) ==
    /\ pcP[p] = "idle"
    /\ nextId + n - 1 <= MaxPushed
    /\ Len(slices) < MaxPushes
    /\ new' = [new EXCEPT ![p] = [i \in 1..n |-> Frame(nextId + i - 1)]]
    /\ nextId' = nextId + n
    /\ slices' = Append(slices, new'[p])
    /\ pcP' = [pcP EXCEPT ![p] = "loop"]
    /\ UNCHANGED <<size, buf, lock, debug_assertions, pcR, it_size, it_index,
                   it_down, input, yielded, snap>>
    /\ UNCHANGED <<fvars, xvars>>
push_lock(p, n) ==
    /\ pcP[p] = "idle"
    /\ lock = Free
    /\ nextId + n - 1 <= MaxPushed
    /\ Len(slices) < MaxPushes
    /\ lock' = p
    /\ new' = [new EXCEPT ![p] = [i \in 1..n |-> Frame(nextId + i - 1)]]
    /\ nextId' = nextId + n
    /\ slices' = Append(slices, new'[p])
    /\ pcP' = [pcP EXCEPT ![p] = "loop"]
    /\ UNCHANGED <<size, buf, debug_assertions, pcR, it_size, it_index,
                   it_down, input, yielded, snap>>
    /\ UNCHANGED <<fvars, xvars>>

\* one turn of the for loop, lines 67-70: pop_front().expect(..) panics on
\* an empty deque (the guard is dropped while unwinding), else push_back.
pop_push_grow(q, s) == Append(q, s)
pop_push_front(q, s) == <<s>> \o SubSeq(q, 1, Len(q) - 1)
pop_push(q, s) == Append(Tail(q), s)

push_sample(p) ==
    /\ pcP[p] = "loop"
    /\ new[p] # <<>>
    /\ IF buf = <<>>
       THEN /\ pcP' = [pcP EXCEPT ![p] = "panicked"]
            /\ lock' = IF lock = p THEN Free ELSE lock
            /\ UNCHANGED <<buf, new>>
       ELSE /\ buf' = pop_push(buf, Head(new[p]))
            /\ new' = [new EXCEPT ![p] = Tail(new[p])]
            /\ UNCHANGED <<pcP, lock>>
    /\ UNCHANGED <<size, debug_assertions, nextId, pcR, it_size, it_index,
                   it_down, input, yielded, slices, snap>>
    /\ UNCHANGED <<fvars, xvars>>

\* end of push: the slice is consumed, the guard is dropped (line 74)
push_unlock_held(p) ==
    /\ pcP[p] = "loop"
    /\ new[p] = <<>>
    /\ pcP' = [pcP EXCEPT ![p] = "idle"]
    /\ UNCHANGED <<size, buf, lock, debug_assertions, new, nextId, pcR,
                   it_size, it_index, it_down, input, yielded, slices, snap>>
    /\ UNCHANGED <<fvars, xvars>>
push_unlock(p) ==
    /\ pcP[p] = "loop"
    /\ new[p] = <<>>
    /\ lock' = IF lock = p THEN Free ELSE lock
    /\ pcP' = [pcP EXCEPT ![p] = "idle"]
    /\ UNCHANGED <<size, buf, debug_assertions, new, nextId, pcR, it_size,
                   it_index, it_down, input, yielded, slices, snap>>
    /\ UNCHANGED <<fvars, xvars>>

\* SampleBuffer::iter(size, downsample), lines 80-86, as called by
\* FourierAnalyzer::analyze (fourier.rs 299-302) after clearing its inputs:
\* lock, then index = lock.len() - size * downsample.  The subtraction
\* underflows when size * downsample > len: a panic with overflow checks
\* (the guard is dropped), a wrapped index without; the wrapped value
\* 2^64 + (len - size * downsample) is kept as the negative number.
start_index_nodown(l, sz, d) == l - sz
start_index(l, sz, d) == l - (sz * d)

iter_lock(sz, d) ==
    /\ pcR = "idle"
    /\ lock = Free
    /\ it_size' = sz
    /\ it_down' = d
    /\ input' = <<<<>>, <<>>>>
    /\ yielded' = <<>>
    /\ snap' = buf
    /\ IF start_index(len(buf), sz, d) < 0 /\ debug_assertions
       THEN /\ pcR' = "panicked"
            /\ UNCHANGED <<lock, it_index>>
       ELSE /\ pcR' = "iter"
            /\ lock' = Reader
            /\ it_index' = start_index(len(buf), sz, d)
    /\ UNCHANGED <<size, buf, debug_assertions, pcP, new, nextId, slices>>
    /\ UNCHANGED <<fvars, xvars>>

\* SampleIterator::next, lines 121-125, driven by the zip of analyze:
\* buf.get(index).cloned(), index += downsample; Some([l, r]) is multiplied
\* with the window coefficient of its position and pushed to both inputs
\* (the product is kept as the pair <<sample, position>>), None ends the
\* loop.
advance_one(i, d) == i + 1
advance(i, d) == i + d

iter_next ==
    /\ pcR = "iter"
    /\ it_index' = advance(it_index, it_down)
    /\ IF it_index >= 0 /\ it_index < len(buf)
       THEN LET s == buf[it_index + 1]
                k == Len(input[1]) + 1
            IN  /\ yielded' = Append(yielded, s)
                /\ IF k <= it_size
                   THEN /\ input' = <<Append(input[1], <<s[1], k>>),
                                      Append(input[2], <<s[2], k>>)>>
                        /\ pcR' = "iter"
                   ELSE /\ pcR' = "ended"
                        /\ UNCHANGED input
       ELSE /\ pcR' = "ended"
            /\ UNCHANGED <<yielded, input>>
    /\ UNCHANGED <<size, buf, lock, debug_assertions, pcP, new, nextId,
                   it_size, it_down, slices, snap>>
    /\ UNCHANGED <<fvars, xvars>>

\* the for loop is over: the SampleIterator and its MutexGuard are dropped
iter_drop ==
    /\ pcR = "ended"
    /\ lock' = IF lock = Reader THEN Free ELSE lock
    /\ pcR' = "idle"
    /\ it_size' = 0
    /\ it_index' = 0
    /\ it_down' = 0
    /\ yielded' = <<>>
    /\ snap' = <<>>
    /\ UNCHANGED <<size, buf, debug_assertions, pcP, new, nextId, input,
                   slices>>
    /\ UNCHANGED <<fvars, xvars>>

\* a whole push on a buffer nobody else touches (the loop of lines 67-70)
RECURSIVE push_all(_, _)
push_all(q, sl) ==
    IF sl = <<>> \/ q = <<>> THEN q
    ELSE push_all(pop_push(q, Head(sl)), Tail(sl))

\* everything a SampleIterator starting at index i returns (collect())
RECURSIVE collect(_, _, _)
collect(q, i, d) ==
    IF i >= 0 /\ i < len(q)
    THEN <<q[i + 1]>> \o collect(q, advance(i, d), d)
    ELSE <<>>

\* the frames [i as Sample, i as Sample] for i in lo..hi-1 of the unit tests
TestFrames(lo, hi) == [i \in 1..(hi - lo) |-> <<lo + i - 1, lo + i - 1>>]

\* samples.rs tests::test_overflow and tests::test_downsample
test_overflow ==
    collect(push_all(push_all(Zeros(16), TestFrames(100, 120)),
                     TestFrames(0, 32)),
            start_index(16, 16, 1), 1) = TestFrames(16, 32)

test_downsample ==
    collect(push_all(Zeros(32), TestFrames(0, 32)), start_index(32, 7, 4), 4)
        = [k \in 1..7 |-> <<4 * k, 4 * k>>]

NextBuf ==
    \/ \E p \in Pushers, n \in 0..MaxSlice : push_lock(p, n)
    \/ \E p \in Pushers : push_sample(p)
    \/ \E p \in Pushers : push_unlock(p)
    \/ \E sz \in 0..MaxIterSize, d \in 0..MaxDown : iter_lock(sz, d)
    \/ iter_next
    \/ iter_drop

SpecBuf == InitBuf /\ [][NextBuf]_vars

(* ======================== BeatDetector: SpecBeat ====================== *)
\* detect calls modelled per detector
MaxDetect == 5
\* largest volume a detect call measures
MaxVolume == 3

(* ---- f32 values as exact fractions <<numerator, denominator>> with a
        denominator > 0; <<1, 0>>, <<-1, 0>> and <<0, 0>> stand for the
        results of dividing by zero: +inf, -inf and NaN ---- *)
Abs(x) == IF x < 0 THEN 0 - x ELSE x

Sgn(x) == IF x < 0 THEN 0 - 1 ELSE IF x > 0 THEN 1 ELSE 0

IsNaN(a) == a[1] = 0 /\ a[2] = 0

RECURSIVE GCD(_, _)
GCD(a, b) == IF b = 0 THEN Abs(a) ELSE GCD(b, a % Abs(b))

\* the fraction n / d in lowest terms
Q(n, d) ==
    IF d = 0 THEN <<Sgn(n), 0>>
    ELSE LET g == GCD(n, d)
             sg == IF d < 0 THEN 0 - 1 ELSE 1
         IN  <<(sg * n) \div g, (sg * d) \div g>>

QAdd(a, b) ==
    IF a[2] = 0 /\ b[2] = 0 THEN (IF a = b THEN a ELSE <<0, 0>>)
    ELSE Q(a[1] * b[2] + b[1] * a[2], a[2] * b[2])
QSub(a, b) == QAdd(a, <<0 - b[1], b[2]>>)
QMul(a, b) == Q(a[1] * b[1], a[2] * b[2])
QDiv(a, b) ==
    IF b[1] = 0 THEN Q(a[1] * b[2], 0)
    ELSE Q(a[1] * b[2] * Sgn(b[1]), a[2] * Abs(b[1]))
\* comparisons are false when either side is NaN
QLt(a, b) ==
    /\ ~IsNaN(a) /\ ~IsNaN(b)
    /\ IF a[2] = 0 /\ b[2] = 0 THEN a[1] < b[1]
                               ELSE a[1] * b[2] < b[1] * a[2]
QLe(a, b) ==
    /\ ~IsNaN(a) /\ ~IsNaN(b)
    /\ IF a[2] = 0 /\ b[2] = 0 THEN a[1] <= b[1]
                               ELSE a[1] * b[2] <= b[1] * a[2]
\* f32::max
QMax(a, b) == IF QLt(a, b) THEN b ELSE a

\* values given to BeatDetectorBuilder::decay and ::trigger (the defaults
\* are 2000.0 and 0.4); a decay below 1 makes the coefficient negative
DecayValues == {Q(1, 2), Q(1, 1), Q(2, 1), Q(4, 1)}
TriggerValues == {Q(2, 5), Q(1, 1)}

\* from_builder, lines 135-139: decay: 1.0 - 1.0 / build.decay
decay_coefficient(d) == QSub(Q(1, 1), QDiv(Q(1, 1), d))

\* BeatDetector::from_builder, lines 133-177
InitBeat ==
    /\ FramesNew
    /\ BufIdle
    /\ SpectrumIdle
    /\ FourierIdle
    /\ \E d \in DecayValues : decay = decay_coefficient(d)
    /\ trigger \in TriggerValues
    /\ last_volume = 0
    /\ last_delta = 0
    /\ last_beat_delta = Q(0, 1)
    /\ last_peak = 0
    /\ last_valley = 0
    /\ isbeat = FALSE
    /\ volumes = <<>>
    /\ peak_writes = 0
    /\ valley_writes = 0

\* detect, line 196: self.last_beat_delta * self.decay
decayed_never(lbd, c) == lbd
decayed(lbd, c) == QMul(lbd, c)

\* detect, line 199: delta < 0.0 && self.last_delta > 0.0
is_peak_rising(delta, ld) == ld > 0
is_peak_falling(delta, ld) == delta < 0
is_peak(delta, ld) == delta < 0 /\ ld > 0

\* detect, line 210: delta > 0.0 && self.last_delta < 0.0
is_valley_rising(delta, ld) == delta > 0
is_valley(delta, ld) == delta > 0 /\ ld < 0

\* detect, lines 200-201: self.last_peak = self.last_volume;
\* let beat_delta = self.last_peak - self.last_valley
peak_height_down(lv, valley) == valley - lv
peak_height(lv, valley) == lv - valley

\* detect, line 204: beat_delta > (self.last_beat_delta * self.trigger)
above_threshold_ge(beat_delta, lbd, t) == QLe(QMul(lbd, t), Q(beat_delta, 1))
above_threshold(beat_delta, lbd, t) == QLt(QMul(lbd, t), Q(beat_delta, 1))

\* detect, line 205: self.last_beat_delta.max(beat_delta)
raised_to(lbd, beat_delta) == Q(beat_delta, 1)
raised(lbd, beat_delta) == QMax(lbd, Q(beat_delta, 1))

\* detect, lines 219-221: if delta != 0.0 { self.last_delta = delta; }
next_delta_always(delta, ld) == delta
next_delta(delta, ld) == IF delta # 0 THEN delta ELSE ld

\* BeatDetector::detect, lines 187-224.  volume: the mean of the averaged
\* spectrum over the configured range, as measured by this call.
detect(volume) ==
    LET lbd == decayed(last_beat_delta, decay)
        delta == volume - last_volume
        peak == is_peak(delta, last_delta)
        valley == ~peak /\ is_valley(delta, last_delta)
        beat_delta == peak_height(last_volume, last_valley)
        beat == peak /\ above_threshold(beat_delta, lbd, trigger)
    IN  /\ Len(volumes) < MaxDetect
        /\ last_peak' = IF peak THEN last_volume ELSE last_peak
        /\ peak_writes' = IF peak THEN peak_writes + 1 ELSE peak_writes
        /\ last_valley' = IF valley THEN last_volume ELSE last_valley
        /\ valley_writes' = IF valley THEN valley_writes + 1
                                      ELSE valley_writes
        /\ last_beat_delta' = IF beat THEN raised(lbd, beat_delta) ELSE lbd
        /\ isbeat' = beat
        /\ last_volume' = volume
        /\ last_delta' = next_delta(delta, last_delta)
        /\ volumes' = Append(volumes, volume)
        /\ UNCHANGED <<decay, trigger>>
        /\ UNCHANGED <<fvars, bvars, svars, avars>>

NextBeat == \E volume \in 0..MaxVolume : detect(volume)

SpecBeat == InitBeat /\ [][NextBeat]_vars

(* ========================= Spectrum: SpecSpectrum ===================== *)
\* most buckets of a spectrum handed to Spectrum::new
MaxBuckets == 4
\* highest frequency bound handed to Spectrum::new
MaxFreq == 2
\* longest buffer handed to fill_buckets
MaxTarget == 3

\* 2^24: up to here an f32 (24-bit significand) holds every integer
F32Exact == 16777216
\* tests::test_fill: the buffer starts as vec![50.0; 20]
TestFill == 50

\* a failed assertion or an out-of-bounds index: the call panics
Panicked == [ok |-> FALSE]
Returned(v) == [ok |-> TRUE, val |-> v]

\* signal strengths: integers, added with f32 rounding
Amplitudes == {0, 1, F32Exact}

\* frequencies handed to freq_to_id and slice: quarters from half a unit
\* below 0 to half a unit above MaxFreq
Frequencies == {Q(k, 4) : k \in (0 - 2)..(4 * MaxFreq + 2)}

\* the spacing of the f32 values around the integer x >= 0
RECURSIVE Ulp(_)
Ulp(x) == IF x < F32Exact THEN 1 ELSE 2 * Ulp(x \div 2)

\* the f32 nearest to the integer x >= 0, ties to the even significand
RoundF32(x) ==
    LET u == Ulp(x)
        q == x \div u
        r == x % u
    IN  IF 2 * r < u THEN q * u
        ELSE IF 2 * r > u THEN (q + 1) * u
        ELSE IF q % 2 = 0 THEN q * u ELSE (q + 1) * u

\* f32 addition of two signal strengths
fadd(a, b) == RoundF32(a + b)

\* iter().sum::<f32>(): the left fold of f32 additions from 0.0
RECURSIVE FSum(_)
FSum(b) ==
    IF b = <<>> THEN 0
    ELSE fadd(FSum(SubSeq(b, 1, Len(b) - 1)), b[Len(b)])

Spectrum(b, w, l, h) ==
    [buckets |-> b, width |-> w, lowest |-> l, highest |-> h]

self == Spectrum(buckets, width, lowest, highest)

\* Spectrum::new, lines 80-88
Spectrum_new(data, low, high) ==
    Spectrum(data, QDiv(QSub(high, low), Q(Len(data) - 1, 1)), low, high)

\* Default for Spectrum<Vec<SignalStrength>>, lines 56-65
Spectrum_default == Spectrum(<<0>>, Q(1, 1), Q(0, 1), Q(0, 1))

\* f32::round of a finite x: to the nearest integer, halves away from zero
round(x) ==
    IF x[1] >= 0 THEN (2 * x[1] + x[2]) \div (2 * x[2])
    ELSE 0 - ((2 * (0 - x[1]) + x[2]) \div (2 * x[2]))

\* freq_to_id, line 113: assert!(x >= 0.0)
not_below_rounded(x) == x[2] = 0 \/ round(x) >= 0
not_below(x) == QLe(Q(0, 1), x)

\* Spectrum::freq_to_id, lines 110-117.  The cast of +inf to usize
\* saturates, so the second assertion fails for it.
freq_to_id(s, f) ==
    LET x == QDiv(QSub(f, s.lowest), s.width)
    IN  IF ~not_below(x) THEN Panicked
        ELSE IF x[2] = 0 THEN Panicked
        ELSE IF ~(round(x) < Len(s.buckets)) THEN Panicked
        ELSE Returned(round(x))

\* Spectrum::id_to_freq, lines 120-124
id_to_freq_nolowest(s, i) ==
    IF ~(i < Len(s.buckets)) THEN Panicked
    ELSE Returned(QMul(Q(i, 1), s.width))
id_to_freq(s, i) ==
    IF ~(i < Len(s.buckets)) THEN Panicked
    ELSE Returned(QAdd(QMul(Q(i, 1), s.width), s.lowest))

\* tests::test_conversion, line 481: freq_to_id(id_to_freq(i))
conversion(s, i) ==
    IF id_to_freq(s, i).ok THEN freq_to_id(s, id_to_freq(s, i).val)
    ELSE Panicked

\* slice, line 176: &self.buckets[start..end + 1]
range_exclusive(b, start, end) == SubSeq(b, start + 1, end)
range(b, start, end) == SubSeq(b, start + 1, end + 1)

\* Spectrum::slice, lines 171-181; the range panics for start > end + 1
slice(s, low, high) ==
    LET start == freq_to_id(s, low)
        end == freq_to_id(s, high)
    IN  IF ~start.ok \/ ~end.ok THEN Panicked
        ELSE IF start.val > end.val + 1 THEN Panicked
        ELSE Returned(Spectrum(
                 range(s.buckets, start.val, end.val),
                 s.width,
                 QAdd(s.lowest, QMul(Q(start.val, 1), s.width)),
                 QAdd(s.lowest, QMul(Q(end.val, 1), s.width))))

\* fill_buckets, lines 202-204: buf[i] = 0.0 for every i
cleared_keep(out) == out
cleared(out) == [j \in 1..Len(out) |-> 0]

\* fill_buckets, lines 206-209, from source bucket i (0-based) on:
\* bucket = i * buf.len() / self.buckets.len(); buf[bucket] += v
RECURSIVE add_buckets(_, _, _)
add_buckets(b, out, i) ==
    IF i >= Len(b) THEN out
    ELSE LET bucket == (i * Len(out)) \div Len(b)
         IN  add_buckets(b,
                 [out EXCEPT ![bucket + 1] = fadd(out[bucket + 1], b[i + 1])],
                 i + 1)

\* Spectrum::fill_buckets, lines 201-218; indexing an empty buf panics
fill_buckets(s, out) ==
    IF s.buckets # <<>> /\ out = <<>> THEN Panicked
    ELSE Returned(Spectrum(
             add_buckets(s.buckets, cleared(out), 0),
             QDiv(QSub(s.highest, s.lowest), Q(Len(out) - 1, 1)),
             s.lowest,
             s.highest))

\* every sequence over S of length lo..hi
SeqsOf(S, lo, hi) == UNION {[1..n -> S] : n \in lo..hi}

SetSelf(s) ==
    /\ buckets = s.buckets
    /\ width = s.width
    /\ lowest = s.lowest
    /\ highest = s.highest

\* tests::do_tests, line 407: (0..n).map(|x| x as f32), bucket i holds i
Ramp(n) == [k \in 1..n |-> k - 1]

\* a spectrum fresh from Spectrum::new (two buckets or more, low <= high):
\* any signal strengths between the bounds 0 and MaxFreq, or the buckets
\* of the unit tests between any bounds; or one from Default::default()
InitSpectrum ==
    /\ FramesNew
    /\ BufIdle
    /\ BeatIdle
    /\ FourierIdle
    /\ \/ \E data \in SeqsOf(Amplitudes, 2, MaxBuckets) :
             /\ SetSelf(Spectrum_new(data, Q(0, 1), Q(MaxFreq, 1)))
             /\ op = [name |-> "new"]
       \/ \E n \in 2..MaxBuckets, low \in 0..MaxFreq, high \in 0..MaxFreq :
             /\ low <= high
             /\ SetSelf(Spectrum_new(Ramp(n), Q(low, 1), Q(high, 1)))
             /\ op = [name |-> "new"]
       \/ /\ SetSelf(Spectrum_default)
          /\ op = [name |-> "default"]
    /\ ret = [ok |-> TRUE]

\* the spectrum was constructed and no method has been called on it yet
Fresh == op.name \in {"new", "default"}

call_freq_to_id(f) ==
    /\ Fresh
    /\ op' = [name |-> "freq_to_id", f |-> f]
    /\ ret' = freq_to_id(self, f)
    /\ UNCHANGED <<buckets, width, lowest, highest>>
    /\ UNCHANGED <<fvars, bvars, dvars, avars>>

call_id_to_freq(i) ==
    /\ Fresh
    /\ op' = [name |-> "id_to_freq", i |-> i]
    /\ ret' = id_to_freq(self, i)
    /\ UNCHANGED <<buckets, width, lowest, highest>>
    /\ UNCHANGED <<fvars, bvars, dvars, avars>>

call_conversion(i) ==
    /\ Fresh
    /\ op' = [name |-> "conversion", i |-> i]
    /\ ret' = conversion(self, i)
    /\ UNCHANGED <<buckets, width, lowest, highest>>
    /\ UNCHANGED <<fvars, bvars, dvars, avars>>

call_slice(low, high) ==
    /\ Fresh
    /\ op' = [name |-> "slice", low |-> low, high |-> high]
    /\ ret' = slice(self, low, high)
    /\ UNCHANGED <<buckets, width, lowest, highest>>
    /\ UNCHANGED <<fvars, bvars, dvars, avars>>

call_fill_buckets(out) ==
    /\ Fresh
    /\ op' = [name |-> "fill_buckets", buf |-> out]
    /\ ret' = fill_buckets(self, out)
    /\ UNCHANGED <<buckets, width, lowest, highest>>
    /\ UNCHANGED <<fvars, bvars, dvars, avars>>

NextSpectrum ==
    \/ \E f \in Frequencies : call_freq_to_id(f)
    \/ \E i \in 0..MaxBuckets : call_id_to_freq(i)
    \/ \E i \in 0..MaxBuckets : call_conversion(i)
    \/ \E low \in Frequencies, high \in Frequencies : call_slice(low, high)
    \/ \E out \in SeqsOf({0, TestFill}, 0, MaxTarget) : call_fill_buckets(out)

SpecSpectrum == InitSpectrum /\ [][NextSpectrum]_vars

(* ==================== Spectrum::find_maxima: SpecMaxima =============== *)
\* most buckets of a spectrum searched for maxima
MaxSearched == 7
\* largest signal strength in a spectrum searched for maxima
MaxStrength == 2
\* longest buffer handed to find_maxima
MaxBuffer == 2

Min(a, b) == IF a < b THEN a ELSE b

\* find_maxima, lines 285-289: windows(2).map(|v| v[1] - v[0])
derivative(b) == [k \in 1..(Len(b) - 1) |-> b[k + 1] - b[k]]

\* find_maxima, line 297: d0 > &0.0 && d1 < &0.0
is_maximum_flat(d0, d1) == d0 >= 0 /\ d1 < 0
is_maximum(d0, d1) == d0 > 0 /\ d1 < 0

\* find_maxima, lines 291-302: maxima_iter run to its end from pair i
\* (0-based) of the derivative on, yielding (id_to_freq(i + 1),
\* buckets[i + 1]) for every pair that is a maximum
RECURSIVE maxima_iter(_, _)
maxima_iter(s, i) ==
    LET d == derivative(s.buckets)
    IN  IF i + 2 > Len(d) THEN <<>>
        ELSE (IF is_maximum(d[i + 1], d[i + 2])
                THEN <<<<id_to_freq(s, i + 1).val, s.buckets[i + 2]>>>>
                ELSE <<>>)
             \o maxima_iter(s, i + 1)

\* slice::sort_by(|(_, a1), (_, a2)| a2.partial_cmp(a1)): m put into the
\* sorted sequence ms behind every entry that is not smaller (stable)
RECURSIVE insert(_, _)
insert(ms, m) ==
    IF ms = <<>> THEN <<m>>
    ELSE IF Head(ms)[2] >= m[2] THEN <<Head(ms)>> \o insert(Tail(ms), m)
    ELSE <<m>> \o ms

\* find_maxima, line 310: buffer[0..num].sort_by(...)
RECURSIVE sort_by(_)
sort_by(ms) ==
    IF ms = <<>> THEN <<>>
    ELSE insert(sort_by(SubSeq(ms, 1, Len(ms) - 1)), ms[Len(ms)])

\* find_maxima, lines 304-308: zip ends with the shorter of the buffer and
\* the maxima; num counts the pairs written
zipped_all(buffer, ms) == Len(ms)
zipped(buffer, ms) == Min(Len(buffer), Len(ms))

\* find_maxima, lines 305-307: *b = m for the first num maxima found
written_largest(ms, num) == SubSeq(sort_by(ms), 1, num)
written(ms, num) == SubSeq(ms, 1, num)

\* Spectrum::find_maxima, lines 284-313; buffer[0..num] panics for
\* num > buffer.len()
find_maxima(s, buffer) ==
    LET ms == maxima_iter(s, 0)
        num == zipped(buffer, ms)
    IN  IF num > Len(buffer) THEN Panicked
        ELSE Returned([num |-> num,
                       buffer |-> sort_by(written(ms, num))
                                    \o SubSeq(buffer, num + 1, Len(buffer))])

\* what a buffer of n slots holds before the call: slot k holds (0.0, -k)
Stale(n) == [k \in 1..n |-> <<Q(0, 1), 0 - k>>]

\* a spectrum fresh from Spectrum::new whose lowest bucket is at 0 or 1 and
\* whose highest bucket is at MaxFreq
InitMaxima ==
    /\ FramesNew
    /\ BufIdle
    /\ BeatIdle
    /\ FourierIdle
    /\ \E data \in SeqsOf(0..MaxStrength, 2, MaxSearched), low \in {0, 1} :
          SetSelf(Spectrum_new(data, Q(low, 1), Q(MaxFreq, 1)))
    /\ op = [name |-> "new"]
    /\ ret = [ok |-> TRUE]

call_find_maxima(buffer) ==
    /\ Fresh
    /\ op' = [name |-> "find_maxima", buffer |-> buffer]
    /\ ret' = find_maxima(self, buffer)
    /\ UNCHANGED <<buckets, width, lowest, highest>>
    /\ UNCHANGED <<fvars, bvars, dvars, avars>>

NextMaxima == \E n \in 0..MaxBuffer : call_find_maxima(Stale(n))

SpecMaxima == InitMaxima /\ [][NextMaxima]_vars

(* ==================== FourierAnalyzer: SpecFourier ==================== *)
\* analyze calls modelled per run
MaxAnalyze == 2
\* largest downsample factor of the analyzer
MaxFactor == 2
\* frames the buffer may hold beyond length * downsample
MaxSpare == 1

\* FourierBuilder::length: the transform lengths whose roots of unity are
\* 1, -i, -1 and i, so that the transform of integer samples is exact
Lengths == {4}

\* FourierBuilder::rate and SampleBuffer::new(_, rate), in samples per
\* second
Rates == {4, 8}

\* cos and sin of a quarter turns
cos4(a) == CASE a % 4 = 0 -> 1 [] a % 4 = 1 -> 0 [] a % 4 = 2 -> 0 - 1
             [] OTHER -> 0
sin4(a) == CASE a % 4 = 0 -> 0 [] a % 4 = 1 -> 1 [] a % 4 = 2 -> 0
             [] OTHER -> 0 - 1

\* sampled waves of n samples with k periods (k = 0: constant), one
\* sample per 1 / (rate / downsample) seconds
Cosine(k, n) == [j \in 1..n |-> cos4((k * (j - 1) * 4) \div n)]
Sine(k, n) == [j \in 1..n |-> sin4((k * (j - 1) * 4) \div n)]

\* the signals recorded: silence, a constant, and the waves at the centre
\* frequency of every Fourier bin up to half the sampling rate
Signals(n) ==
    {Cosine(k, n) : k \in 0..(n \div 2)} \cup {Sine(k, n) : k \in 0..(n \div 2)}

\* a frame that belongs to neither signal
Between == <<2, 2>>

\* a buffer of n frames whose every d-th frame, counted back from the newest
\* d, carries the next sample of the signals l and r
Recorded(n, l, r, d) ==
    [i \in 1..n |->
        LET back == n - i
            j == Len(l) - (back \div d)
        IN  IF back % d = d - 1 /\ j >= 1 THEN <<l[j], r[j]>> ELSE Between]

\* FourierAnalyzer::new, lines 218-248; window::none (lines 53-55)
FourierAnalyzer_new(length, downsample, r) ==
    LET n == length \div 2
        downsampled_rate == Q(r, downsample)
        low == QDiv(downsampled_rate, Q(length, 1))
        high == QDiv(downsampled_rate, Q(2, 1))
        zero == [i \in 1..n |-> 0]
    IN  [length |-> length, buckets |-> n, downsample |-> downsample,
         rate |-> r, lowest |-> low, highest |-> high,
         window |-> [i \in 1..length |-> 1],
         output |-> [i \in 1..length |-> <<0, 0>>],
         spectra |-> <<Spectrum_new(zero, low, high),
                       Spectrum_new(zero, low, high)>>,
         average |-> Spectrum_new(zero, low, high)]

\* a SampleBuffer that was filled by the recorder, and an analyzer fresh
\* from FourierBuilder::plan
InitFourier ==
    /\ FramesNew
    /\ BeatIdle
    /\ SpectrumIdle
    /\ \E length \in Lengths, downsample \in 1..MaxFactor, r \in Rates :
          LET a == FourierAnalyzer_new(length, downsample, r)
          IN  /\ fourier = [length |-> a.length, buckets |-> a.buckets,
                            downsample |-> a.downsample, rate |-> a.rate,
                            lowest |-> a.lowest, highest |-> a.highest,
                            window |-> a.window]
              /\ output = a.output
              /\ spectra = a.spectra
              /\ average = a.average
              /\ good = a.spectra
              /\ size \in (length * downsample)
                            ..(length * downsample + MaxSpare)
              /\ \E l \in Signals(length), r2 \in Signals(length) :
                    buf = Recorded(size, l, r2, downsample)
    /\ rate = fourier.rate
    /\ lock = Free
    /\ debug_assertions \in BOOLEAN
    /\ pcP = [p \in Pushers |-> "idle"]
    /\ new = [p \in Pushers |-> <<>>]
    /\ nextId = 1
    /\ pcR = "idle"
    /\ it_size = 0
    /\ it_index = 0
    /\ it_down = 0
    /\ input = <<<<>>, <<>>>>
    /\ yielded = <<>>
    /\ slices = <<>>
    /\ snap = <<>>
    /\ pcF = "idle"
    /\ analyzed = 0
    /\ locks = 0

\* analyze, lines 292-296: assert_eq!(buf.rate(), self.rate, ..)
rate_matches_any(a, b) == TRUE
rate_matches(a, b) == a = b

\* FourierAnalyzer::analyze(buf), lines 286-296, called with a SampleBuffer
\* of rate r: the one modelled when r is the analyzer's rate, any other
\* buffer else.  The assertion comes first.
analyze_assert(r) ==
    /\ pcF = "idle"
    /\ analyzed < MaxAnalyze
    /\ analyzed' = analyzed + 1
    /\ rate' = r
    /\ pcF' = IF rate_matches(r, fourier.rate) THEN "checked" ELSE "panicked"
    /\ UNCHANGED <<fourier, output, spectra, average, locks, good>>
    /\ UNCHANGED <<fvars, bvars, dvars, svars>>

\* analyze, lines 299-300: self.input[0].clear(); self.input[1].clear()
analyze_clear ==
    /\ pcF = "checked"
    /\ input' = <<<<>>, <<>>>>
    /\ pcF' = "cleared"
    /\ UNCHANGED <<size, buf, lock, debug_assertions, pcP, new, nextId, pcR,
                   it_size, it_index, it_down, yielded, slices, snap>>
    /\ UNCHANGED <<rate, fourier, output, spectra, average, analyzed, locks,
                   good>>
    /\ UNCHANGED <<fvars, dvars, svars>>

\* analyze, lines 301-307: every frame of the iterator, as long as the
\* window has coefficients, is multiplied with its coefficient and pushed
\* as Complex::new(.., 0.0)
RECURSIVE windowed(_, _, _)
windowed(frames, window, c) ==
    IF frames = <<>> \/ window = <<>> THEN <<>>
    ELSE <<<<Head(frames)[c] * Head(window), 0>>>>
             \o windowed(Tail(frames), Tail(window), c)

\* analyze, lines 301-310: buf.iter(length, downsample) takes the lock
\* (samples.rs 80-86; the index underflows for a buffer too short), the
\* loop fills both inputs, the iterator and its guard are dropped, and the
\* lengths are compared by debug_assert_eq!.  No other thread runs here, so
\* the steps under the lock are taken at once.
analyze_iter ==
    /\ pcF = "cleared"
    /\ lock = Free
    /\ LET start == start_index(len(buf), fourier.length, fourier.downsample)
           frames == collect(buf, start, fourier.downsample)
       IN  IF start < 0 /\ debug_assertions
           THEN /\ pcF' = "panicked"
                /\ UNCHANGED <<input, locks, yielded>>
           ELSE /\ locks' = locks + 1
                /\ yielded' = frames
                /\ input' = <<windowed(frames, fourier.window, 1),
                              windowed(frames, fourier.window, 2)>>
                /\ pcF' = IF debug_assertions
                             /\ Len(input'[1]) # Len(fourier.window)
                          THEN "panicked" ELSE "filled"
    /\ UNCHANGED <<size, buf, lock, debug_assertions, pcP, new, nextId, pcR,
                   it_size, it_index, it_down, slices, snap>>
    /\ UNCHANGED <<rate, fourier, output, spectra, average, analyzed, good>>
    /\ UNCHANGED <<fvars, dvars, svars>>

\* complex numbers <<re, im>>
cadd(a, b) == <<a[1] + b[1], a[2] + b[2]>>
cmul(a, b) == <<a[1] * b[1] - a[2] * b[2], a[1] * b[2] + a[2] * b[1]>>
\* Complex::norm_sqr
norm_sqr(z) == z[1] * z[1] + z[2] * z[2]

\* e^(-2 pi i k j / n) for n dividing 4
twiddle(k, j, n) ==
    LET a == (k * j * 4) \div n IN <<cos4(a), 0 - sin4(a)>>

RECURSIVE bin(_, _, _)
\* the sum of x[j] e^(-2 pi i k j / n) over the first m samples of x
bin(x, k, m) ==
    IF m = 0 THEN <<0, 0>>
    ELSE cadd(bin(x, k, m - 1), cmul(x[m], twiddle(k, m - 1, Len(x))))

\* rustfft FFT::process(input, output) as called at lines 312 and 317: the
\* forward transform, not normalised; output[k] is the bin of centre
\* frequency k * (rate / downsample) / length, output[0] the constant part
process(x) == [k \in 1..Len(x) |-> bin(x, k - 1, Len(x))]

\* analyze, lines 313-315 and 318-320: for (s, o) in
\* spectra[c].iter_mut().zip(output.iter()) { *s = o.norm_sqr(); }
stored(s, out) ==
    [s EXCEPT !.buckets =
        [i \in 1..Len(s.buckets) |->
            IF i <= Len(out) THEN norm_sqr(out[i]) ELSE s.buckets[i]]]

\* analyze, lines 312-320, for channel c; process panics unless input and
\* output have the planned length.  After the second channel analyze
\* returns [spectra[0].as_ref(), spectra[1].as_ref()].
analyze_fft(c) ==
    /\ pcF = (IF c = 1 THEN "filled" ELSE "left")
    /\ IF Len(input[c]) # fourier.length
       THEN /\ pcF' = "panicked"
            /\ UNCHANGED <<output, spectra, good>>
       ELSE /\ output' = process(input[c])
            /\ spectra' = [spectra EXCEPT ![c] = stored(spectra[c], output')]
            /\ pcF' = IF c = 1 THEN "left" ELSE "idle"
            /\ good' = IF c = 1 THEN good ELSE spectra'
    /\ UNCHANGED <<rate, fourier, average, analyzed, locks>>
    /\ UNCHANGED <<fvars, bvars, dvars, svars>>

\* average_spectrum, lines 361-363: *b /= num
fdiv(x, n) == IF x % n = 0 THEN x \div n ELSE Q(x, n)

\* average_spectrum, lines 346-360: the output is cleared and every
\* spectrum is added bucket by bucket, as far as both reach
RECURSIVE summed(_, _)
summed(out, sp) ==
    IF sp = <<>> THEN out
    ELSE summed([j \in 1..Len(out) |->
                    IF j <= Len(Head(sp).buckets)
                    THEN fadd(out[j], Head(sp).buckets[j]) ELSE out[j]],
                Tail(sp))

\* respan, line 104: (high - low) / (self.buckets.len() as Frequency - 1.0)
span_width_len(low, high, n) == QDiv(QSub(high, low), Q(n, 1))
span_width(low, high, n) == QDiv(QSub(high, low), Q(n - 1, 1))

\* Spectrum::respan, lines 103-107
respan(s, low, high) ==
    Spectrum(s.buckets, span_width(low, high, Len(s.buckets)), low, high)

\* average_spectrum(out, spectra), lines 337-372.  Without spectra the
\* debug_assert! or the index spectra[0] panics; spectra of other lengths
\* or bounds than the first are caught by the debug assertions only.
average_spectrum(out, sp, debug) ==
    IF sp = <<>> THEN Panicked
    ELSE IF debug /\ \E i \in 1..Len(sp) :
                        \/ Len(sp[i].buckets) # Len(out.buckets)
                        \/ sp[i].lowest # sp[1].lowest
                        \/ sp[i].highest # sp[1].highest
    THEN Panicked
    ELSE LET sums == summed(cleared(out.buckets), sp)
         IN  Returned(respan(
                 [out EXCEPT !.buckets =
                     [j \in 1..Len(sums) |-> fdiv(sums[j], Len(sp))]],
                 sp[1].lowest, sp[1].highest))

\* FourierAnalyzer::average, lines 336-340
call_average ==
    /\ pcF = "idle"
    /\ LET res == average_spectrum(average, spectra, debug_assertions)
       IN  IF res.ok THEN average' = res.val /\ pcF' = "idle"
                     ELSE pcF' = "panicked" /\ UNCHANGED average
    /\ UNCHANGED <<rate, fourier, output, spectra, analyzed, locks, good>>
    /\ UNCHANGED <<fvars, bvars, dvars, svars>>

NextFourier ==
    \/ \E r \in Rates : analyze_assert(r)
    \/ analyze_clear
    \/ analyze_iter
    \/ \E c \in 1..2 : analyze_fft(c)
    \/ call_average

SpecFourier == InitFourier /\ [][NextFourier]_vars

(* ==================== SampleBuffer::volume: SpecVolume ================ *)
\* the frames in the buffer: [l, r] with mono mix 0, 1 and 2
VolumeFrames == {<<0, 0>>, <<1, 1>>, <<3, 1>>}

\* the length argument of volume, in seconds
VolumeLengths == {Q(1, 4), Q(3, 8), Q(1, 2), Q(1, 1), Q(2, 1)}

\* volume, line 98: (1.0 / length) as usize, for a finite quotient: the
\* fraction is cut off, a negative value or NaN becomes 0
as_usize(x) == IF x[2] = 0 \/ x[1] < 0 THEN 0 ELSE x[1] \div x[2]

\* volume, lines 104-105: the sum of ((s[0] + s[1]) / 2.0).powi(2)
RECURSIVE squares(_)
squares(q) ==
    IF q = <<>> THEN Q(0, 1)
    ELSE QAdd(squares(Tail(q)),
              QMul(Q(Head(q)[1] + Head(q)[2], 2),
                   Q(Head(q)[1] + Head(q)[2], 2)))

\* SampleBuffer::volume(length), lines 92-109, on the locked buffer q of a
\* SampleBuffer with rate r.  rate / div panics for div = 0;
\* len - rate / div underflows for a window longer than the buffer: a panic
\* with overflow checks, else skip() of the wrapped number skips every
\* frame.  The value returned is the square root of the fraction sqrt.
volume(q, r, length, debug) ==
    LET div == as_usize(QDiv(Q(1, 1), length))
    IN  IF div = 0 THEN Panicked
        ELSE LET skipped == len(q) - (r \div div)
             IN  IF skipped < 0 /\ debug THEN Panicked
                 ELSE Returned(
                     [sqrt |-> QDiv(squares(IF skipped < 0 THEN <<>>
                                    ELSE SubSeq(q, skipped + 1, len(q))),
                               Q(len(q), 1))])

\* a SampleBuffer holding recorded frames; no call was made yet
InitVolume ==
    /\ FramesNew
    /\ BeatIdle
    /\ SpectrumIdle
    /\ AnalyzerIdle
    /\ rate \in Rates
    /\ size \in 0..MaxSize
    /\ buf \in [1..size -> VolumeFrames]
    /\ lock = Free
    /\ debug_assertions \in BOOLEAN
    /\ pcP = [p \in Pushers |-> "idle"]
    /\ new = [p \in Pushers |-> <<>>]
    /\ nextId = 1
    /\ pcR = "idle"
    /\ it_size = 0
    /\ it_index = 0
    /\ it_down = 0
    /\ input = <<<<>>, <<>>>>
    /\ yielded = <<>>
    /\ slices = <<>>
    /\ snap = <<>>

\* the lock is taken at line 95 and released when volume returns or
\* panics
call_volume(length) ==
    /\ op.name = "none"
    /\ lock = Free
    /\ op' = [name |-> "volume", length |-> length]
    /\ ret' = volume(buf, rate, length, debug_assertions)
    /\ locks' = locks + 1
    /\ UNCHANGED <<buckets, width, lowest, highest>>
    /\ UNCHANGED <<rate, fourier, output, spectra, average, pcF, analyzed,
                   good>>
    /\ UNCHANGED <<fvars, bvars, dvars>>

NextVolume == \E length \in VolumeLengths : call_volume(length)

SpecVolume == InitVolume /\ [][NextVolume]_vars

(* ================= spectra made from spectra: SpecDerive ============== *)
\* calls made one after the other, each on what the calls before left
MaxDerive == 2

\* frequencies handed to slice: halves from 0 to MaxFreq
SliceFrequencies == {Q(k, 2) : k \in 0..(2 * MaxFreq)}

\* Spectrum::as_ref, lines 136-143
as_ref(s) == Spectrum(s.buckets, s.width, s.lowest, s.highest)

\* Spectrum::fill_buckets_alloc, lines 186-188
fill_buckets_alloc(s, n) == fill_buckets(s, [i \in 1..n |-> 0])

\* Spectrum::fill_spectrum, lines 220-229
fill_spectrum(s, other) ==
    LET filled == fill_buckets(s, other.buckets)
    IN  IF ~filled.ok THEN Panicked
        ELSE Returned(respan([other EXCEPT !.buckets = filled.val.buckets],
                             s.lowest, s.highest))

\* Spectrum::fill_from, lines 323-333
fill_from(s, other) ==
    IF Len(s.buckets) # Len(other.buckets) THEN Panicked
    ELSE Returned(Spectrum(other.buckets, other.width, other.lowest,
                           other.highest))

\* tests::check_integrity, lines 378-383:
\* ((s.highest - s.lowest) / s.width).round() as usize == s.buckets.len() - 1;
\* the cast turns NaN and negative numbers into 0 and +inf into usize::MAX
check_integrity(s) ==
    LET x == QDiv(QSub(s.highest, s.lowest), s.width)
    IN  IF IsNaN(x) THEN 0 = Len(s.buckets) - 1
        ELSE IF x[2] = 0 THEN x[1] < 0 /\ 0 = Len(s.buckets) - 1
        ELSE IF round(x) < 0 THEN 0 = Len(s.buckets) - 1
        ELSE round(x) = Len(s.buckets) - 1

\* two spectra fresh from Spectrum::new or Default::default(): the one the
\* methods are called on, and a second one (held in average) that serves as
\* other of fill_spectrum and fill_from and as out of average_spectrum
InitDerive ==
    /\ FramesNew
    /\ BufIdle
    /\ BeatIdle
    /\ rate = 0
    /\ fourier = [length |-> 0]
    /\ output = <<>>
    /\ spectra = <<>>
    /\ pcF = "idle"
    /\ analyzed = 0
    /\ locks = 0
    /\ good = <<>>
    /\ \/ \E n \in 2..MaxBuckets, low \in 0..MaxFreq, high \in 0..MaxFreq :
             SetSelf(Spectrum_new(Ramp(n), Q(low, 1), Q(high, 1)))
       \/ SetSelf(Spectrum_default)
    /\ \/ \E n \in 2..MaxTarget :
             average = Spectrum_new([i \in 1..n |-> 0], Q(0, 1), Q(MaxFreq, 1))
       \/ average = Spectrum_default
    /\ op = [name |-> "new", step |-> 0]
    /\ ret = [ok |-> TRUE]

\* a further call can be made: the run has not panicked
Callable == ret.ok /\ op.step < MaxDerive

\* the call returned the spectrum res.val, which replaces the one it was
\* called on, or it panicked
Becomes(res) ==
    /\ ret' = [ok |-> res.ok]
    /\ IF res.ok
       THEN /\ buckets' = res.val.buckets
            /\ width' = res.val.width
            /\ lowest' = res.val.lowest
            /\ highest' = res.val.highest
       ELSE UNCHANGED <<buckets, width, lowest, highest>>

Unused ==
    /\ UNCHANGED <<rate, fourier, output, spectra, pcF, analyzed, locks, good>>
    /\ UNCHANGED <<fvars, bvars, dvars>>

then_slice(low, high) ==
    /\ Callable
    /\ op' = [name |-> "slice", step |-> op.step + 1]
    /\ Becomes(slice(self, low, high))
    /\ UNCHANGED average
    /\ Unused

then_fill_buckets_alloc(n) ==
    /\ Callable
    /\ op' = [name |-> "fill_buckets_alloc", step |-> op.step + 1]
    /\ Becomes(fill_buckets_alloc(self, n))
    /\ UNCHANGED average
    /\ Unused

\* fill_buckets(buf) with the buckets of the second spectrum as buf
then_fill_buckets ==
    /\ Callable
    /\ op' = [name |-> "fill_buckets", step |-> op.step + 1]
    /\ Becomes(fill_buckets(self, average.buckets))
    /\ UNCHANGED average
    /\ Unused

then_as_ref ==
    /\ Callable
    /\ op' = [name |-> "as_ref", step |-> op.step + 1]
    /\ Becomes(Returned(as_ref(self)))
    /\ UNCHANGED average
    /\ Unused

\* self.fill_spectrum(&mut other): the second spectrum is filled
then_fill_spectrum ==
    /\ Callable
    /\ op' = [name |-> "fill_spectrum", step |-> op.step + 1]
    /\ LET res == fill_spectrum(self, average)
       IN  /\ ret' = [ok |-> res.ok]
           /\ average' = IF res.ok THEN res.val ELSE average
    /\ UNCHANGED <<buckets, width, lowest, highest>>
    /\ Unused

\* self.fill_from(&other)
then_fill_from ==
    /\ Callable
    /\ op' = [name |-> "fill_from", step |-> op.step + 1]
    /\ Becomes(fill_from(self, average))
    /\ UNCHANGED average
    /\ Unused

\* other.fill_from(&self)
then_fill_into ==
    /\ Callable
    /\ op' = [name |-> "fill_into", step |-> op.step + 1]
    /\ LET res == fill_from(average, self)
       IN  /\ ret' = [ok |-> res.ok]
           /\ average' = IF res.ok THEN res.val ELSE average
    /\ UNCHANGED <<buckets, width, lowest, highest>>
    /\ Unused

\* average_spectrum(&mut out, &[self; num]) with the second spectrum as out
then_average_spectrum(num, debug) ==
    /\ Callable
    /\ op' = [name |-> "average_spectrum", step |-> op.step + 1]
    /\ LET res == average_spectrum(average, [i \in 1..num |-> self], debug)
       IN  /\ ret' = [ok |-> res.ok]
           /\ average' = IF res.ok THEN res.val ELSE average
    /\ UNCHANGED <<buckets, width, lowest, highest>>
    /\ Unused

NextDerive ==
    \/ \E low \in SliceFrequencies, high \in SliceFrequencies :
          then_slice(low, high)
    \/ \E n \in 1..MaxTarget : then_fill_buckets_alloc(n)
    \/ then_fill_buckets
    \/ then_as_ref
    \/ then_fill_spectrum
    \/ then_fill_from
    \/ then_fill_into
    \/ \E num \in 0..2, debug \in BOOLEAN : then_average_spectrum(num, debug)

SpecDerive == InitDerive /\ [][NextDerive]_vars

(* ====== capture thread and analyzer step on one SampleBuffer: SpecLock,
          SpecMixed, SpecReentrant ====== *)
\* largest capacity of the shared buffer, and number of different non-zero
\* frames the capture thread delivers
MaxShared == 1
MaxTone == 2

\* the slices one push call may be given: up to capacity + 1 equal frames
SharedSlices ==
    {[i \in 1..n |-> Frame(t)] : n \in 0..(size + 1), t \in 1..MaxTone}

\* the operations of one analyzer step, in the order of the analyzer
\* closure (no-dmx main.rs 36-43): beat.detect(&samples),
\* samples.volume(0.3), info.analyzer.analyze(&samples)
Ops == <<"detect", "volume", "analyze">>

\* the Frames variables proper; none of them is touched here
fstate == <<buffers, back_info, input_idx, output_idx, analyzer, iter_alive,
            iter_frame, frame_ret, pcC, cur_volume, seen, pcA, cycle,
            spawned, calls, total_calls, lastPub, rdFresh, retained,
            rd_frame, overwritten>>

\* SampleBuffer::new(size, rate) shared by the recorder and the analyzer
\* closure (frames.rs 87: self.recorder.sample_buffer().clone())
InitShared ==
    /\ FramesNew
    /\ OthersIdle
    /\ size \in 1..MaxShared
    /\ buf = Zeros(size)
    /\ lock = Free
    /\ debug_assertions = FALSE
    /\ pcP = [p \in Pushers |-> "idle"]
    /\ new = [p \in Pushers |-> <<>>]
    /\ nextId = 1
    /\ pcR = "idle"
    /\ it_size = 0
    /\ it_index = 0
    /\ it_down = 0
    /\ input = <<<<>>, <<>>>>
    /\ yielded = <<>>
    /\ slices = <<>>
    /\ snap = <<>>

\* parking_lot::Mutex::lock() (samples.rs 62, 80, 95) returns to thread t
\* only when nobody holds the mutex, t included
acquirable_again(holder, t) == holder \in {Free, t}
acquirable(holder, t) == holder = Free

\* the capture thread calls push (line 61) and is inside self.buf.lock()
push_call(p) ==
    /\ pcP[p] = "idle"
    /\ pcP' = [pcP EXCEPT ![p] = "want"]
    /\ UNCHANGED <<size, buf, lock, debug_assertions, new, nextId, pcR,
                   it_size, it_index, it_down, input, yielded, slices, snap>>
    /\ UNCHANGED <<fvars, xvars>>

\* lock() returns (line 62); sl is the slice the call was given
push_acquire(p, sl) ==
    /\ pcP[p] = "want"
    /\ acquirable(lock, p)
    /\ lock' = p
    /\ new' = [new EXCEPT ![p] = sl]
    /\ pcP' = [pcP EXCEPT ![p] = "loop"]
    /\ UNCHANGED <<size, buf, debug_assertions, nextId, pcR, it_size,
                   it_index, it_down, input, yielded, slices, snap>>
    /\ UNCHANGED <<fvars, xvars>>

\* the operation after operation o of the step; after the last one the
\* closure returns and the loop publishes (frames.rs 96-97)
following(o) ==
    IF o < Len(Ops) THEN [op |-> o + 1, at |-> "want"]
    ELSE [op |-> 0, at |-> "done"]

\* the analyzer loop invokes the closure (frames.rs 94-96), which calls its
\* first operation
step_begin ==
    /\ pcS.at \in {"idle", "done"}
    /\ pcS' = [op |-> 1, at |-> "want"]
    /\ views' = <<>>
    /\ UNCHANGED <<fstate, bvars, xvars>>

\* lock() returns inside the operation: SampleBuffer::iter (line 80, called
\* by analyze, fourier.rs 301-302, itself called by detect, beat.rs 188) or
\* SampleBuffer::volume (line 95).  track: the history is kept.
step_lock(track) ==
    /\ pcS.at \in {"want", "nested"}
    /\ acquirable(lock, Reader)
    /\ lock' = Reader
    /\ pcS' = [pcS EXCEPT !.at = "hold"]
    /\ views' = IF track THEN Append(views, buf) ELSE views
    /\ UNCHANGED <<size, buf, debug_assertions, pcP, new, nextId, pcR,
                   it_size, it_index, it_down, input, yielded, slices, snap>>
    /\ UNCHANGED <<fstate, xvars>>

\* the guard is dropped: in volume when it returns (line 109), in analyze
\* at the end of the copy loop (fourier.rs 307), before the transforms
step_unlock_late ==
    /\ pcS.at = "hold"
    /\ pcS' = IF Ops[pcS.op] = "volume" THEN following(pcS.op)
                                         ELSE [pcS EXCEPT !.at = "rest"]
    /\ UNCHANGED <<size, buf, lock, debug_assertions, pcP, new, nextId, pcR,
                   it_size, it_index, it_down, input, yielded, slices, snap>>
    /\ UNCHANGED <<fstate, views, xvars>>
step_unlock ==
    /\ pcS.at = "hold"
    /\ lock' = IF lock = Reader THEN Free ELSE lock
    /\ pcS' = IF Ops[pcS.op] = "volume" THEN following(pcS.op)
                                         ELSE [pcS EXCEPT !.at = "rest"]
    /\ UNCHANGED <<size, buf, debug_assertions, pcP, new, nextId, pcR,
                   it_size, it_index, it_down, input, yielded, slices, snap>>
    /\ UNCHANGED <<fstate, views, xvars>>

\* the transforms and what follows them are done (fourier.rs 312-322,
\* beat.rs 189-224): the operation returns
step_return ==
    /\ pcS.at = "rest"
    /\ pcS' = following(pcS.op)
    /\ UNCHANGED <<fstate, views, bvars, xvars>>

CaptureThread(p) ==
    \/ push_call(p)
    \/ \E sl \in SharedSlices : push_acquire(p, sl)
    \/ push_sample(p)
    \/ push_unlock(p)

StepThread(track) ==
    \/ step_begin
    \/ step_lock(track)
    \/ step_unlock
    \/ step_return

NextLock == CaptureThread(1) \/ StepThread(FALSE)

\* each thread is scheduled again and again; a thread inside lock() gets
\* the mutex eventually although it is free only now and then
\* (parking_lot hands a contended mutex over fairly from time to time)
SpecLock ==
    /\ InitShared
    /\ [][NextLock]_vars
    /\ WF_vars(push_call(1) \/ push_sample(1) \/ push_unlock(1))
    /\ SF_vars(\E sl \in SharedSlices : push_acquire(1, sl))
    /\ WF_vars(step_begin \/ step_unlock \/ step_return)
    /\ SF_vars(step_lock(FALSE))

NextMixed == CaptureThread(1) \/ StepThread(TRUE)

SpecMixed == InitShared /\ [][NextMixed]_vars

\* user code on the analyzer thread that holds a live SampleIterator (the
\* state "hold") and calls push, iter, volume, analyze or detect on the
\* same buffer or a clone of it: the call is inside lock()
nested_call(name) ==
    /\ pcS.at = "hold"
    /\ pcS' = [op |-> pcS.op, at |-> "nested", call |-> name]
    /\ UNCHANGED <<fstate, views, bvars, xvars>>

NextReentrant ==
    \/ NextLock
    \/ \E name \in {"push", "iter", "volume", "analyze", "detect"} :
          nested_call(name)

SpecReentrant == InitShared /\ [][NextReentrant]_vars

(* ============================== claims ================================ *)

(* ---- SpecFrames ---- *)

\* C1: in detached mode the slot the consumer reads is never the slot the
\* analyzer writes, in any interleaving: the reader's and the writer's slot
\* indices differ in every state, and every value an info callback has
\* finished reading is R(c) for one cycle c (0: the initial value), never a
\* mix of two cycles.
C1_NoTear ==
    spawned >= 1 =>
        /\ input_idx # output_idx
        /\ pcC = "run" => \E c \in 0..cycle : seen = R(c)

\* the consumer is inside a callback, one field read, while the analyzer is
\* half way through writing a later cycle
C1_Witness ==
    /\ spawned = 1
    /\ pcC = "cb_beat"
    /\ pcA = "publish"
    /\ cur_volume >= 1
    /\ cycle > cur_volume

\* C2: freshness.  Every info read hands out the result of the most recent
\* publish completed when the read fixed its slot (the initial value if
\* there was none); the cycles seen by successive reads never decrease and
\* the initial value is not seen again after a published one.
C2_Fresh ==
    [][ /\ pcC' = "run" => seen' = R(rdFresh')
        /\ (pcC # "cb_volume" /\ pcC' = "cb_volume") =>
               /\ rdFresh' = lastPub'
               /\ buffers'[output_idx'] = R(lastPub')
        /\ seen'.volume >= seen.volume
        /\ seen.volume > 0 => seen'.volume > 0 ]_vars

\* a read that returned the third result after an earlier read of the first
C2_Witness ==
    /\ spawned = 1
    /\ pcC = "run"
    /\ seen = R(3)
    /\ lastPub = 3
    /\ total_calls = 1

\* C7: in detached mode neither side waits for the other.  Whenever the
\* analyzer thread stands at its publish (or at a write of its input
\* buffer) that step can be taken, whatever the consumer is doing; whenever
\* the consumer stands at a step of an info read that step can be taken,
\* whatever the analyzer is doing.
C7_NoWait ==
    spawned >= 1 =>
        /\ pcA = "publish" => ENABLED an_publish
        /\ pcA = "w_beat" => ENABLED an_write_beat
        /\ (pcC = "run" /\ frame_ret # None) => ENABLED info_load(1)
        /\ pcC = "rd_swap" => ENABLED info_swap
        /\ pcC = "cb_volume" => ENABLED info_cb_volume
        /\ pcC = "cb_beat" => ENABLED info_cb_beat

\* the analyzer is about to publish while the consumer is inside a callback
C7_Witness ==
    /\ spawned = 1
    /\ pcA = "publish"
    /\ pcC = "cb_beat"
    /\ cycle >= 2

\* C8: in inline mode every next() runs the analyzer exactly once and
\* publishes its result before the Frame is returned: the number of
\* analyzer invocations equals the number of next() calls, the last
\* publish is that of the last invocation, and an info read on the returned
\* frame hands the callback exactly that result.
C8_Inline ==
    (analyzer = "some" /\ pcC # "new") =>
        /\ cycle = total_calls
        /\ lastPub = cycle
        /\ pcC \in {"cb_volume", "cb_beat"} => /\ cycle >= 1
                                       /\ buffers[output_idx] = R(cycle)
        /\ pcC = "cb_beat" => cur_volume = cycle

\* a callback reading the result of the second inline next()
C8_Witness ==
    /\ analyzer = "some"
    /\ pcC = "cb_beat"
    /\ total_calls = 2
    /\ cur_volume = 2

\* C9: once the analyzer is detached, next() neither runs the analyzer nor
\* publishes, only one analyzer thread ever exists, and every analyzer
\* invocation is a step of that thread.
C9_Detached ==
    /\ [](spawned <= 1)
    /\ [][ spawned >= 1 =>
             /\ total_calls' # total_calls =>
                    UNCHANGED <<buffers, back_info, input_idx, cycle, lastPub>>
             /\ cycle' # cycle => (pcA = "start" /\ pcA' = "w_beat"
                                   /\ UNCHANGED <<pcC, total_calls>>) ]_vars

\* two frames handed out in detached mode while the thread writes
C9_Witness ==
    /\ spawned = 1
    /\ analyzer = "none"
    /\ total_calls >= 2
    /\ pcA = "w_beat"
    /\ cycle >= 2

\* C10: the k-th next() on a FramesIter returns a Frame with frame = k - 1,
\* in both modes, and next() never fails to return one.
C10_Index ==
    /\ iter_alive => iter_frame = calls
    /\ calls >= 1 => frame_ret = calls - 1
    /\ (iter_alive /\ pcC = "run" /\ total_calls < MaxFrames
        /\ (analyzer = "some" => cycle < MaxCycles)) => ENABLED FramesIter_next

\* the third frame of a second FramesIter
C10_Witness ==
    /\ calls = 2
    /\ total_calls = 3
    /\ frame_ret = 1

\* C24 as stated: on one Frames instance, once a frame has been produced no
\* later next() returns a Frame with index 0, also not after Frames::iter
\* was called again.
C24_NoRestart ==
    [][(total_calls' > total_calls /\ total_calls >= 1) => frame_ret' # 0]_vars

\* C24: every call of Frames::iter restarts the frame sequence on the same
\* Frames instance: the new FramesIter counts from 0, so a next() returns
\* index 0 exactly when it is the first next() on its FramesIter, however
\* many frames earlier iterators of this Frames have produced; within one
\* FramesIter the index grows by one per call and never returns to 0.
C24_Restart ==
    [][ /\ (iter_alive' /\ ~iter_alive) => iter_frame' = 0
        /\ total_calls' > total_calls =>
              /\ frame_ret' = 0 <=> calls = 0
              /\ calls >= 1 => frame_ret' = frame_ret + 1 ]_vars

\* the first frame of a second FramesIter, after two frames of the first
C24_Witness ==
    /\ total_calls = 3
    /\ calls = 1
    /\ frame_ret = 0
    /\ iter_frame = 1

\* C23 as stated: a Frame is a snapshot; the value info() yields for a Frame
\* is the result that was current when next() returned that Frame, whatever
\* has been published since.
C23_Snapshot ==
    [][(pcC = "cb_beat" /\ pcC' = "run") => seen' = R(retained[rd_frame])]_vars

\* C23: a Frame is a handle on the shared reader side, not a snapshot: the
\* value info() yields is the most recently published result at the time
\* info() fixes its slot, whichever retained Frame it is called on; it is
\* never older than the result that was current when next() returned that
\* Frame, and it follows the publishes that happen afterwards.
C23_Latest ==
    [][ /\ (pcC # "cb_volume" /\ pcC' = "cb_volume") =>
              /\ rdFresh' = lastPub'
              /\ lastPub' >= retained[rd_frame']
        /\ (pcC = "cb_beat" /\ pcC' = "run") =>
              /\ seen' = R(rdFresh)
              /\ rdFresh >= retained[rd_frame] ]_vars

\* info() on the first Frame, called after two more frames were handed out,
\* has yielded a result published after that Frame was returned
C23_Witness ==
    /\ total_calls = 3
    /\ pcC = "cb_beat"
    /\ rd_frame = 1
    /\ rdFresh > retained[1]
    /\ cur_volume = rdFresh

\* C27: once detached, the background analyzer has no stop condition:
\* whatever the consumer does (it stops calling next, drops the FramesIter,
\* drops the Frames), the thread runs its analyzer step and publishes again
\* and again, under fair scheduling of the thread.
C27_Forever ==
    /\ (spawned >= 1) ~> (pcA = "w_beat")
    /\ (spawned >= 1) ~> (pcA = "timing")

\* the Frames is dropped and the thread has just published once more
C27_Witness ==
    /\ pcC = "dropped"
    /\ spawned = 1
    /\ pcA = "timing"
    /\ cycle = MaxCycles
    /\ lastPub = MaxCycles
    /\ total_calls = 0

\* C33: in both modes the slot an analyzer invocation receives as &mut R
\* holds a whole earlier value, never the result of the invocation before
\* it: the k-th invocation (k = cycle + 1) finds the initial value or the
\* result of a cycle up to k - 2; the result of cycle k - 2 when that one
\* was replaced unread by the publish of cycle k - 1, and of cycle k - 3
\* (the initial value for k = 3) when every published result has been read.
C33_NotOwn ==
    [][cycle' = cycle + 1 =>
        LET recv == buffers[input_idx]
        IN  /\ \E j \in 0..cycle : recv = R(j) /\ (cycle >= 1 => j < cycle)
            /\ (cycle >= 2 /\ (cycle - 1) \in overwritten)
                  => recv = R(cycle - 1)
            /\ (cycle >= 2 /\ overwritten = {}) => recv = R(cycle - 2)
      ]_vars

\* the fourth invocation of the detached analyzer has written its first
\* field; every result so far was read, and the other field still holds
\* what cycle 1 left in the slot
C33_Witness ==
    /\ pcA = "w_beat"
    /\ cycle = 4
    /\ overwritten = {}
    /\ buffers[input_idx] = [volume |-> 4, beat |-> 1]

\* the step in which an info call settles on the slot it reads
Settles == pcC \in {"run", "rd_swap"} /\ pcC' = "cb_volume"

\* C34: a result that a later publish replaced before any read took it is
\* never in the slot the consumer reads and never the value an info call
\* has observed; and an info call made when nothing was published since
\* the previous one settled reads the same slot with the same value.
C34_Skipped ==
    [][/\ buffers'[output_idx'].volume \notin overwritten'
       /\ buffers'[output_idx'].beat \notin overwritten'
       /\ (pcC = "cb_beat" /\ pcC' = "run") =>
             (seen'.volume \notin overwritten'
                /\ seen'.beat \notin overwritten')
       /\ (Settles /\ lastPub = rdFresh) =>
             (output_idx' = output_idx
                /\ buffers'[output_idx'] = buffers[output_idx])
      ]_vars

\* the detached analyzer published three results between the first and the
\* second next(): the first two were replaced unread, the info call on the
\* second Frame observed the third
C34_Witness ==
    /\ analyzer = "none"
    /\ pcC = "run"
    /\ retained = <<0, 3>>
    /\ overwritten = {1, 2}
    /\ seen = R(3)
    /\ frame_ret = 1

\* C35: once the analyzer step has failed in detached mode, nothing is
\* published or written any more, so the half-written slot of the failed
\* cycle never becomes the slot the consumer reads; next() goes on
\* returning Frames with the next index without running the analyzer; an
\* info call settles on the whole result of the last completed publish (the
\* initial value when there was none) and completes with it; neither
\* next() nor info() fails.  In inline mode the failing step ends next()
\* with the failure: no publish, no Frame, the consumer has panicked.
C35_Failure ==
    [][/\ pcA = "panicked" =>
             /\ pcA' = "panicked"
             /\ UNCHANGED <<buffers, input_idx, lastPub, cycle>>
             /\ buffers[output_idx] = R(buffers[output_idx].volume)
             /\ total_calls' = total_calls + 1 =>
                   (frame_ret' = iter_frame /\ iter_frame' = iter_frame + 1
                      /\ pcC' = "run")
             /\ Settles => buffers'[output_idx'] = R(lastPub)
             /\ (pcC = "cb_beat" /\ pcC' = "run" /\ rdFresh = lastPub)
                   => seen' = R(lastPub)
             /\ (pcC # "panicked" /\ pcC' = "panicked")
                   => (analyzer = "none" /\ pcC = "run" /\ ~iter_alive
                         /\ total_calls' = total_calls)
       /\ (analyzer = "some" /\ cycle' = cycle + 1 /\ lastPub' = lastPub) =>
             /\ pcC' = "panicked"
             /\ UNCHANGED <<back_info, frame_ret, iter_frame, total_calls>>
      ]_vars

\* the thread failed in its second cycle after writing one field; the
\* consumer then got a Frame and read the result of cycle 1
C35_Witness ==
    /\ pcA = "panicked"
    /\ cycle = 2
    /\ lastPub = 1
    /\ buffers[input_idx] = [volume |-> 2, beat |-> 0]
    /\ pcC = "run"
    /\ retained = <<0, 1>>
    /\ seen = R(1)
    /\ frame_ret = 1

(* ---- SpecBuf ---- *)

Pushing == {p \in Pushers : pcP[p] = "loop"}

\* the content the spec prescribes: the last size frames of the zero frames
\* followed by every pushed slice in push order
Expected == LastN(Zeros(size) \o Flatten(slices), size)

\* C3: a buffer created with size N holds exactly N frames in every state,
\* whatever slices (empty, shorter, longer than N) were pushed by whichever
\* thread.
C3_Length == len(buf) = size

\* an empty slice, a slice longer than the buffer and a shorter one, pushed
\* by two threads
C3_Witness ==
    /\ size >= 2
    /\ Pushing = {}
    /\ Len(slices) = 3
    /\ \E i, j, k \in 1..3 : /\ slices[i] = <<>>
                             /\ Len(slices[j]) > size
                             /\ Len(slices[k]) \in 1..(size - 1)
    /\ nextId > 1 + size

\* C4: push evicts first-in first-out.  Whenever no push is in progress the
\* buffer is the last N frames of N zero frames followed by all pushed
\* frames in push order, and iter(N, 1) run to its end has yielded exactly
\* that; test_overflow is the instance N = 16 with 20 and then 32 frames.
C4_Fifo ==
    /\ Pushing = {} => buf = Expected
    /\ (pcR = "ended" /\ it_size = size /\ it_down = 1) => yielded = Expected
    /\ test_overflow

\* iter(N, 1) has returned the last N frames of a push longer than N that
\* followed an earlier push
C4_Witness ==
    /\ size >= 2
    /\ pcR = "ended"
    /\ it_size = size
    /\ it_down = 1
    /\ Len(yielded) = size
    /\ Len(slices) = 2
    /\ slices[1] # <<>>
    /\ Len(slices[2]) > size

\* C5: for d >= 1 and size * d <= N, iter(size, d) yields exactly size
\* frames and then ends, the k-th (from 0) being the element at position
\* N - size * d + k * d of the buffer as locked; test_downsample is the
\* instance N = 32, iter(7, 4) on ascending frames: 4, 8, ..., 28.
C5_Downsample ==
    /\ (pcR \in {"iter", "ended"} /\ it_down >= 1 /\ it_size * it_down <= size)
         => /\ Len(yielded) <= it_size
            /\ pcR = "ended" => Len(yielded) = it_size
            /\ \A k \in 0..(Len(yielded) - 1) :
                  yielded[k + 1] =
                      snap[size - (it_size * it_down) + (k * it_down) + 1]
    /\ test_downsample

\* iter(2, 2) on a buffer of four pushed frames has ended: two frames, the
\* newest one of the buffer not among them
C5_Witness ==
    /\ pcR = "ended"
    /\ size = 4
    /\ it_size = 2
    /\ it_down = 2
    /\ Len(yielded) = 2
    /\ snap[1] # Frame(0)
    /\ yielded[2] # snap[4]

\* C6: while a SampleIterator is alive no push takes effect and pushes are
\* atomic for readers: the buffer stays what it was when iter locked it,
\* no push is half way through, that state holds every slice pushed so far
\* completely, every frame yielded is a frame of that state, and the left
\* and right inputs of analyze are the two channels of those same frames.
C6_Frozen ==
    pcR \in {"iter", "ended"} =>
        /\ buf = snap
        /\ Pushing = {}
        /\ snap = Expected
        /\ \A k \in 1..Len(yielded) :
              \E i \in 1..size : /\ i >= k
                                 /\ yielded[k] = snap[i]
                                 /\ yielded[k] = buf[i]
        /\ Len(input[1]) = Len(yielded)
        /\ Len(input[2]) = Len(yielded)
        /\ \A k \in 1..Len(yielded) : /\ input[1][k] = <<yielded[k][1], k>>
                                      /\ input[2][k] = <<yielded[k][2], k>>

\* an iterator that has yielded frames of two different pushes is alive
\* while a capture thread has three frames left to push
C6_Witness ==
    /\ pcR = "iter"
    /\ Len(yielded) >= 2
    /\ Len(slices) = 2
    /\ yielded[1] \in {slices[1][i] : i \in 1..Len(slices[1])}
    /\ yielded[2] \in {slices[2][i] : i \in 1..Len(slices[2])}
    /\ nextId + 3 <= MaxPushed + 1

\* C22: iter(size, downsample) with size * downsample greater than the
\* buffer's length fails at the call: no iterator is ever returned for such
\* a request, neither one that is still yielding nor one that has ended.
C22_Fails ==
    (pcR \in {"iter", "ended"}) => it_size * it_down <= len(buf)

(* ---- SpecFourier ---- *)

\* C21: analyze on a SampleBuffer whose rate differs from the analyzer's
\* rate fails, and only then; the failing call takes no lock and modifies
\* neither the input scratch buffers nor the output, the channel spectra or
\* the average, so the spectra are still those of the last successful
\* analysis; and nothing is modified afterwards.
C21_RateFirst ==
    [][ /\ analyzed' # analyzed =>
              /\ (rate' # fourier.rate) <=> (pcF' = "panicked")
              /\ rate' # fourier.rate =>
                    /\ UNCHANGED <<input, output, spectra, average, fourier>>
                    /\ UNCHANGED <<lock, locks, buf, yielded, good>>
                    /\ lock' = Free
                    /\ spectra' = good'
        /\ pcF = "panicked" =>
              UNCHANGED <<input, output, spectra, average, lock, locks>>
      ]_vars

\* a call with the wrong rate has failed after a successful analysis and an
\* average: the lock was taken once, the spectra are those of the first call
C21_Witness ==
    /\ pcF = "panicked"
    /\ rate # fourier.rate
    /\ analyzed = 2
    /\ locks = 1
    /\ spectra = good
    /\ \E i \in 1..fourier.buckets : spectra[1].buckets[i] # 0
    /\ \E i \in 1..fourier.buckets : average.buckets[i] # 0
    /\ Len(input[1]) = fourier.length

\* the index of the Fourier bin whose centre frequency is f, for an
\* analyzer a: f / ((rate / downsample) / length)
BinOf(a, f) ==
    round(QDiv(QMul(f, Q(a.length * a.downsample, 1)), Q(a.rate, 1)))

\* the index of the largest bucket of b, when one bucket is the largest
Dominant(b) ==
    {i \in 0..(Len(b) - 1) : \A j \in 1..Len(b) : j # i + 1 => b[j] < b[i + 1]}

\* C25: after analyze, bucket i of each channel spectrum holds the energy
\* of the Fourier bin whose centre frequency is the spectrum's
\* id_to_freq(i); hence a wave at the centre frequency f of a bin makes the
\* bucket freq_to_id(f) the dominant one.
C25_Labelled ==
    (pcF = "idle" /\ analyzed >= 1) =>
        \A c \in 1..2 :
            LET x == windowed(yielded, fourier.window, c)
                s == spectra[c]
            IN  /\ \A i \in 0..(fourier.buckets - 1) :
                      s.buckets[i + 1] =
                          norm_sqr(bin(x, BinOf(fourier, id_to_freq(s, i).val),
                                       fourier.length))
                /\ \A i \in Dominant(s.buckets) :
                      LET f == Q(i * fourier.rate,
                                 fourier.length * fourier.downsample)
                      IN  freq_to_id(s, f) = Returned(i)

(* ---- SpecVolume ---- *)

\* C28: volume(length) sums the squared mono mix ((l + r) / 2)^2 over
\* exactly the rate * length most recent frames of the buffer and divides
\* the sum by the buffer length N before taking the square root.
C28_Window ==
    op.name = "volume" =>
        LET n == QMul(Q(rate, 1), op.length)
        IN  /\ n[2] = 1
            /\ n[1] <= len(buf)
            /\ ret = Returned(
                   [sqrt |-> QDiv(squares(SubSeq(buf, len(buf) - n[1] + 1,
                                                 len(buf))),
                                  Q(len(buf), 1))])

(* ---- SpecDerive ---- *)

\* the spectra at hand that have two buckets or more
Spans == {s \in {self, average} : Len(s.buckets) >= 2}

\* C26 as stated: every spectrum with at least two buckets made by new,
\* slice, fill_buckets, fill_buckets_alloc, fill_spectrum, fill_from, as_ref
\* and average_spectrum satisfies width * (len - 1) = highest - lowest and,
\* as the same thing, round((highest - lowest) / width) = len - 1.
C26_Integrity ==
    \A s \in Spans :
        /\ QMul(s.width, Q(Len(s.buckets) - 1, 1)) = QSub(s.highest, s.lowest)
        /\ check_integrity(s)

\* C26: every such spectrum satisfies width * (len - 1) = highest - lowest;
\* round((highest - lowest) / width) = len - 1 holds for it exactly when
\* highest differs from lowest (otherwise width is 0 and the quotient is
\* not a number).
C26_Span ==
    \A s \in Spans :
        /\ QMul(s.width, Q(Len(s.buckets) - 1, 1)) = QSub(s.highest, s.lowest)
        /\ check_integrity(s) <=> s.highest # s.lowest

\* a one-bucket slice was spread over three buckets: the width is 0
C26_Witness ==
    /\ op = [name |-> "fill_buckets_alloc", step |-> 2]
    /\ Len(buckets) = 3
    /\ width = Q(0, 1)
    /\ lowest = Q(1, 2)
    /\ highest = lowest
    /\ ~check_integrity(self)

(* ---- SpecLock ---- *)

\* who holds the mutex follows from where the two threads are
LockHeld ==
    /\ lock = (IF pcP[1] = "loop" THEN 1
               ELSE IF pcS.at = "hold" THEN Reader ELSE Free)
    /\ ~(pcP[1] = "loop" /\ pcS.at = "hold")

\* C32: with the capture thread calling push over and over and the analyzer
\* thread running detect, volume and analyze over and over on the same
\* buffer, the mutex is held exactly while a push is in its loop or an
\* operation of the step is between its lock() and the drop of its guard
\* (for detect and analyze: before the transform), some thread can always
\* take a step, and under fair scheduling every push call returns and
\* every operation and every step of the analyzer completes.
C32_NoDeadlock ==
    /\ [](LockHeld /\ ENABLED NextLock)
    /\ (pcP[1] = "want") ~> (pcP[1] = "idle")
    /\ \A o \in 1..Len(Ops) :
          (pcS = [op |-> o, at |-> "want"]) ~> (pcS = following(o))
    /\ (pcS.op = 1) ~> (pcS.at = "done")

\* the capture thread is inside lock() while analyze, the last operation
\* of the step, holds the mutex over a buffer that was pushed to
C32_Witness ==
    /\ pcP[1] = "want"
    /\ pcS = [op |-> 3, at |-> "hold"]
    /\ lock = Reader
    /\ buf # Zeros(size)

(* ---- SpecMixed ---- *)

\* C38: the operations of one analyzer step take the mutex separately: an
\* operation finds the buffer as it is when its own lock() returns, and
\* whenever the step is between two operations (after the guard of one is
\* dropped, before lock() of the next returns) the analyzer does not hold
\* the mutex, so a capture thread inside lock() can take it and push.
C38_Separate ==
    [][/\ views' # views /\ views' # <<>> =>
             (views' = Append(views, buf) /\ lock = Free /\ buf' = buf)
       /\ (pcS.at \in {"want", "rest"}) =>
             /\ lock # Reader
             /\ (pcP[1] = "want" /\ lock = Free) =>
                   ENABLED (\E sl \in SharedSlices : push_acquire(1, sl))
      ]_vars

\* a step is done whose three operations found three different buffer
\* contents: pushes took effect between detect and volume and between
\* volume and analyze
C38_Witness ==
    /\ pcS.at = "done"
    /\ Len(views) = Len(Ops)
    /\ views[1] # views[2]
    /\ views[2] # views[3]
    /\ views[1] # views[3]

(* ---- SpecReentrant ---- *)

\* the analyzer thread is inside lock() while its own SampleIterator holds
\* the mutex
SelfBlocked == pcS.at = "nested" /\ lock = Reader

\* C39: a thread that calls push, iter, volume, analyze or detect while its
\* own SampleIterator is alive stays inside lock() for ever, the mutex
\* stays taken, and a capture thread that calls push afterwards stays
\* inside lock() as well.
C39_Blocked ==
    [][/\ pcS.at = "nested" => SelfBlocked
       /\ SelfBlocked =>
             /\ SelfBlocked'
             /\ pcS' = pcS
             /\ pcP[1] = "want" => pcP'[1] = "want"
             /\ pcP'[1] \in {"idle", "want"}
             /\ buf' = buf
             /\ ~ENABLED step_lock(FALSE)
             /\ ~ENABLED (\E sl \in SharedSlices : push_acquire(1, sl))
      ]_vars

\* volume called while the SampleIterator of analyze's turn is alive; the
\* capture thread called push afterwards and waits
C39_Witness ==
    /\ SelfBlocked
    /\ pcS.op = 3
    /\ pcS.call = "volume"
    /\ pcP[1] = "want"
    /\ buf # Zeros(size)

(* ---- SpecBeat ---- *)

\* the volume rose strictly from each call to the next
Rising(vs) == \A i \in 2..Len(vs) : vs[i] > vs[i - 1]

\* C11: while the measured volume is strictly increasing from call to call,
\* no detect call has returned true and last_peak has never been written
\* (it still holds its initial 0.0).
C11_Rising ==
    Rising(volumes) => (isbeat = FALSE /\ peak_writes = 0 /\ last_peak = 0)

C11_Witness ==
    /\ Len(volumes) >= 4
    /\ Rising(volumes)
    /\ last_delta > 0
    /\ last_volume = MaxVolume

\* C12: a detect call returns true exactly when its delta (this volume minus
\* the stored last_volume) is negative, the stored last_delta is positive,
\* and last_volume - last_valley is strictly greater than the stored
\* last_beat_delta, decayed by this call, times trigger; otherwise false.
C12_Beat ==
    [][volumes' # volumes =>
        LET delta == last_volume' - last_volume
            beat_delta == last_volume - last_valley
        IN  isbeat' =
              (/\ delta < 0
               /\ last_delta > 0
               /\ last_beat_delta[1] * decay[1] * trigger[1]
                    < beat_delta * last_beat_delta[2] * decay[2] * trigger[2])
      ]_vars

C12_Witness ==
    /\ isbeat
    /\ peak_writes = 2
    /\ decay = Q(3, 4)
    /\ QLt(Q(last_peak - last_valley, 1), Q(MaxVolume, 1))

\* the direction of the last step of vs that changed the value
RECURSIVE LastMove(_)
LastMove(vs) ==
    IF Len(vs) < 2 THEN "none"
    ELSE IF vs[Len(vs)] > vs[Len(vs) - 1] THEN "up"
    ELSE IF vs[Len(vs)] < vs[Len(vs) - 1] THEN "down"
    ELSE LastMove(SubSeq(vs, 1, Len(vs) - 1))

\* C13: a detect call whose volume equals last_volume returns false and
\* leaves last_delta, last_peak and last_valley as they were (only
\* last_beat_delta is decayed); so a rise followed by any number of flat
\* calls and then a fall confirms a peak at the plateau volume.
C13_Flat ==
    [][volumes' # volumes =>
        /\ last_volume' = last_volume =>
              /\ isbeat' = FALSE
              /\ UNCHANGED <<last_delta, last_peak, last_valley,
                             peak_writes, valley_writes>>
              /\ last_beat_delta' = QMul(last_beat_delta, decay)
        /\ (last_volume' < last_volume /\ LastMove(<<0>> \o volumes) = "up")
              => (last_peak' = last_volume /\ peak_writes' = peak_writes + 1)
      ]_vars

\* rise, flat, flat, fall: the peak is confirmed at the plateau volume
C13_Witness ==
    LET n == Len(volumes)
    IN  /\ n >= 4
        /\ volumes[n] < volumes[n - 1]
        /\ volumes[n - 1] = volumes[n - 2]
        /\ volumes[n - 2] = volumes[n - 3]
        /\ (n = 4 \/ volumes[n - 3] > volumes[n - 4])
        /\ last_peak = volumes[n - 1]
        /\ peak_writes = 1
        /\ isbeat

\* the coefficient lies in [0, 1)
InUnit(c) == QLe(Q(0, 1), c) /\ QLt(c, Q(1, 1))

\* C29 as stated: every detect call multiplies last_beat_delta by a
\* coefficient in [0, 1), so last_beat_delta stays non-negative, does not
\* increase in a call that returns false and grows only in a call that
\* returns true -- whatever decay was configured.
C29_AnyDecay ==
    [][volumes' # volumes =>
        /\ InUnit(decay)
        /\ QLe(Q(0, 1), last_beat_delta')
        /\ ~isbeat' => QLe(last_beat_delta', last_beat_delta)
        /\ QLt(last_beat_delta, last_beat_delta') => isbeat'
      ]_vars

\* C29: every detect call, whatever it returns, first multiplies
\* last_beat_delta by the coefficient 1 - 1/configured_decay (a call that
\* returns true then takes the maximum with its beat_delta).  The
\* coefficient lies in [0, 1) exactly when the configured decay is at least
\* 1; in that case last_beat_delta stays non-negative, does not increase in
\* a call that returns false and grows only in a call that returns true.
C29_Decays ==
    [][volumes' # volumes =>
        /\ \A d \in DecayValues :
              InUnit(decay_coefficient(d)) <=> QLe(Q(1, 1), d)
        /\ ~isbeat' => last_beat_delta' = QMul(last_beat_delta, decay)
        /\ isbeat' =>
              last_beat_delta' = QMax(QMul(last_beat_delta, decay),
                                      Q(last_volume - last_valley, 1))
        /\ InUnit(decay) =>
              /\ QLe(Q(0, 1), last_beat_delta')
              /\ ~isbeat' => QLe(last_beat_delta', last_beat_delta)
              /\ QLt(last_beat_delta, last_beat_delta') => isbeat'
      ]_vars

\* a call that returned false has decayed the delta of an earlier beat
C29_Witness ==
    /\ ~isbeat
    /\ peak_writes >= 1
    /\ decay = Q(3, 4)
    /\ QLt(Q(0, 1), last_beat_delta)
    /\ last_beat_delta[2] > 1

\* C30: last_valley is written only in a detect call with delta > 0 and
\* stored last_delta < 0, where it becomes the previous call's volume;
\* last_peak is written only in a call with delta < 0 and stored
\* last_delta > 0, where it becomes the previous call's volume; every other
\* call leaves both unchanged, and a call that confirms a valley returns
\* false.
C30_Extrema ==
    [][volumes' # volumes =>
        LET delta == last_volume' - last_volume
            valley == delta > 0 /\ last_delta < 0
            peak == delta < 0 /\ last_delta > 0
        IN  /\ IF valley
                 THEN /\ last_valley' = last_volume
                      /\ valley_writes' = valley_writes + 1
                      /\ isbeat' = FALSE
                 ELSE UNCHANGED <<last_valley, valley_writes>>
            /\ IF peak
                 THEN /\ last_peak' = last_volume
                      /\ peak_writes' = peak_writes + 1
                 ELSE UNCHANGED <<last_peak, peak_writes>>
      ]_vars

\* fall, rise: the valley is confirmed at the volume of the call before
C30_Witness ==
    LET n == Len(volumes)
    IN  /\ n >= 3
        /\ volumes[n] > volumes[n - 1]
        /\ volumes[n - 1] < volumes[n - 2]
        /\ last_valley = volumes[n - 1]
        /\ last_valley > 0
        /\ valley_writes = 1
        /\ peak_writes = 1
        /\ ~isbeat

\* C31: after a detect call that returns true, last_beat_delta is the larger
\* of the decayed previous last_beat_delta and this call's beat_delta, hence
\* at least that beat_delta; after a call that confirms a peak and returns
\* false it is just the decayed previous value, which for a coefficient in
\* [0, 1) is no larger than the previous value.
C31_Baseline ==
    [][volumes' # volumes =>
        LET old == QMul(last_beat_delta, decay)
            beat_delta == Q(last_volume - last_valley, 1)
            peak == last_volume' < last_volume /\ last_delta > 0
        IN  /\ isbeat' =>
                  /\ last_beat_delta' \in {old, beat_delta}
                  /\ QLe(old, last_beat_delta')
                  /\ QLe(beat_delta, last_beat_delta')
            /\ (peak /\ ~isbeat') =>
                  /\ last_beat_delta' = old
                  /\ InUnit(decay) => QLe(last_beat_delta', last_beat_delta)
      ]_vars

\* a beat smaller than the decayed baseline was declared: the baseline
\* stays above the beat_delta of this beat
C31_Witness ==
    /\ isbeat
    /\ peak_writes = 2
    /\ QLt(Q(last_peak - last_valley, 1), last_beat_delta)
    /\ QLt(Q(0, 1), Q(last_peak - last_valley, 1))

\* C36: a detect call that follows a call which returned true returns
\* false; a call confirms a peak only when as many valleys as peaks have
\* been confirmed before it, and confirms a valley only when one more peak
\* than valleys has been confirmed, so confirmed peaks and valleys alternate
\* strictly and between two calls that return true (each confirms a peak)
\* some call confirms a valley.
C36_Alternate ==
    [][volumes' # volumes =>
        LET delta == last_volume' - last_volume
        IN  /\ isbeat => ~isbeat'
            /\ isbeat' => (delta < 0 /\ last_delta > 0)
            /\ (delta < 0 /\ last_delta > 0) =>
                  (peak_writes = valley_writes
                     /\ peak_writes' = peak_writes + 1)
            /\ (delta > 0 /\ last_delta < 0) =>
                  (peak_writes = valley_writes + 1
                     /\ valley_writes' = valley_writes + 1)
      ]_vars

\* beat, valley, beat: the second beat comes after a confirmed valley
C36_Witness ==
    LET n == Len(volumes)
    IN  /\ n = MaxDetect
        /\ isbeat
        /\ peak_writes = 2
        /\ valley_writes = 1
        /\ last_valley > 0
        /\ volumes[n - 1] > volumes[n - 2]

\* C37: at every confirmed peak (delta < 0 with stored last_delta > 0)
\* beat_delta = last_peak - last_valley is strictly positive; until the
\* first peak is confirmed last_beat_delta is 0, and the call that confirms
\* the first peak returns true.
C37_Positive ==
    [][volumes' # volumes =>
        LET delta == last_volume' - last_volume
            peak == delta < 0 /\ last_delta > 0
        IN  /\ peak => (last_peak' - last_valley' > 0
                         /\ last_peak' = last_volume
                         /\ last_valley' = last_valley)
            /\ peak_writes = 0 => last_beat_delta = Q(0, 1)
            /\ (peak /\ peak_writes = 0) => isbeat'
      ]_vars

\* the first peak, confirmed after a plateau, is a beat even with trigger 1
C37_Witness ==
    LET n == Len(volumes)
    IN  /\ n >= 3
        /\ peak_writes = 1
        /\ valley_writes = 0
        /\ isbeat
        /\ trigger = Q(1, 1)
        /\ volumes[n - 1] = volumes[n - 2]
        /\ last_beat_delta = Q(last_peak, 1)
        /\ last_peak = 1

(* ---- SpecSpectrum ---- *)

\* C14 as stated: on every freshly constructed spectrum with at least two
\* buckets, freq_to_id(id_to_freq(i)) returns i for every i < len, and
\* freq_to_id(lowest) returns 0, freq_to_id(highest) returns len - 1.
C14_AnyBounds ==
    Len(buckets) >= 2 =>
        /\ (op.name = "conversion" /\ op.i < Len(buckets))
              => (ret.ok /\ ret.val = op.i)
        /\ (op.name = "freq_to_id" /\ op.f = lowest)
              => (ret.ok /\ ret.val = 0)
        /\ (op.name = "freq_to_id" /\ op.f = highest)
              => (ret.ok /\ ret.val = Len(buckets) - 1)

\* C14: on a freshly constructed spectrum with at least two buckets and
\* low # high (exact arithmetic), freq_to_id(id_to_freq(i)) returns i for
\* every i < len, freq_to_id(lowest) returns 0 and freq_to_id(highest)
\* returns len - 1; with low = high the width is 0 and these calls panic.
C14_RoundTrip ==
    Len(buckets) >= 2 =>
        /\ (op.name = "conversion" /\ op.i < Len(buckets))
              => IF lowest = highest THEN ~ret.ok
                 ELSE ret.ok /\ ret.val = op.i
        /\ (op.name = "freq_to_id" /\ op.f = lowest)
              => IF lowest = highest THEN ~ret.ok
                 ELSE ret.ok /\ ret.val = 0
        /\ (op.name = "freq_to_id" /\ op.f = highest)
              => IF lowest = highest THEN ~ret.ok
                 ELSE ret.ok /\ ret.val = Len(buckets) - 1

C14_Witness ==
    /\ op.name = "conversion"
    /\ Len(buckets) = MaxBuckets
    /\ op.i = MaxBuckets - 1
    /\ lowest = Q(1, 1)
    /\ width = Q(1, MaxBuckets - 1)
    /\ ret.ok
    /\ ret.val = op.i

\* the source buckets (0-based) that fill_buckets adds into target bucket j
SourcesOf(j, tlen, slen) == {i \in 0..(slen - 1) : (i * tlen) \div slen = j}

\* the source buckets in I (consecutive indices), in order
Gathered(b, I) ==
    IF I = {} THEN <<>>
    ELSE SubSeq(b, (CHOOSE i \in I : \A k \in I : i <= k) + 1,
                   (CHOOSE i \in I : \A k \in I : i >= k) + 1)

\* the sum of b without rounding
RECURSIVE Sum(_)
Sum(b) == IF b = <<>> THEN 0 ELSE b[1] + Sum(Tail(b))

\* C15 as stated: for any source and any non-empty target, whatever it
\* held before, the sum of the buckets fill_buckets produces equals the sum
\* of the source buckets (both sums taken as tests::test_fill takes them).
C15_SumAlways ==
    (op.name = "fill_buckets" /\ op.buf # <<>>)
        => (ret.ok /\ FSum(ret.val.buckets) = FSum(buckets))

\* C15: for any source and any non-empty target, whatever it held before,
\* fill_buckets returns the target holding, in bucket j, the f32 running sum
\* (from 0.0) of exactly the source buckets i with i * target_len /
\* source_len = j; the sum of the produced buckets equals the sum of the
\* source buckets whenever no addition rounds (here: the exact total is at
\* most 2^24).
C15_Fill ==
    (op.name = "fill_buckets" /\ op.buf # <<>>) =>
        /\ ret.ok
        /\ Len(ret.val.buckets) = Len(op.buf)
        /\ \A j \in 0..(Len(op.buf) - 1) :
              ret.val.buckets[j + 1] =
                  FSum(Gathered(buckets,
                                SourcesOf(j, Len(op.buf), Len(buckets))))
        /\ Sum(buckets) <= F32Exact =>
              /\ FSum(ret.val.buckets) = Sum(buckets)
              /\ FSum(buckets) = Sum(buckets)

C15_Witness ==
    /\ op.name = "fill_buckets"
    /\ op.buf = <<TestFill, TestFill, TestFill>>
    /\ buckets = <<1, 1, 0, 1>>
    /\ ret.ok
    /\ ret.val.buckets = <<2, 0, 1>>

QAbs(a) == <<Abs(a[1]), a[2]>>

\* C16: for in-range low <= high, slice(low, high) returns the parent's
\* buckets start..=end (start = freq_to_id(low), end = freq_to_id(high)),
\* the parent's width, lowest = the parent's id_to_freq(start), highest =
\* the parent's id_to_freq(end), each less than one bucket width away from
\* the requested low / high.
C16_Slice ==
    (/\ op.name = "slice"
     /\ QLe(op.low, op.high)
     /\ freq_to_id(self, op.low).ok
     /\ freq_to_id(self, op.high).ok) =>
        LET start == freq_to_id(self, op.low).val
            end == freq_to_id(self, op.high).val
        IN  /\ ret.ok
            /\ Len(ret.val.buckets) = end - start + 1
            /\ \A k \in 1..(end - start + 1) :
                  ret.val.buckets[k] = buckets[start + k]
            /\ ret.val.width = width
            /\ ret.val.lowest = id_to_freq(self, start).val
            /\ ret.val.highest = id_to_freq(self, end).val
            /\ QLt(QAbs(QSub(ret.val.lowest, op.low)), width)
            /\ QLt(QAbs(QSub(ret.val.highest, op.high)), width)

C16_Witness ==
    /\ op.name = "slice"
    /\ ret.ok
    /\ Len(buckets) = MaxBuckets
    /\ Len(ret.val.buckets) = 2
    /\ ret.val.buckets[1] # ret.val.buckets[2]
    /\ QLt(lowest, ret.val.lowest)
    /\ QLt(ret.val.highest, highest)
    /\ ret.val.lowest # op.low
    /\ ret.val.highest # op.high

\* C20 as stated: freq_to_id(f) returns round((f - lowest) / width) and
\* fails exactly when that rounded index is negative or >= len, so a
\* frequency less than half a bucket below lowest is accepted as bucket 0.
C20_RoundedRange ==
    (op.name = "freq_to_id" /\ width # Q(0, 1)) =>
        LET i == round(QDiv(QSub(op.f, lowest), width))
        IN  /\ ret.ok <=> (0 <= i /\ i < Len(buckets))
            /\ ret.ok => ret.val = i

\* C20: freq_to_id(f) fails when (f - lowest) / width is negative before
\* rounding (every f below lowest, however close) or not a number (width
\* 0), or when it rounds to an index >= len (f half a bucket or more above
\* highest); otherwise it returns the rounded index, the bucket nearest to
\* f, the upper one at a tie.
C20_FreqToId ==
    op.name = "freq_to_id" =>
        LET n == Len(buckets)
            upper == QAdd(lowest, QMul(Q(2 * n - 1, 2), width))
        IN  /\ ret.ok <=> (/\ width # Q(0, 1)
                           /\ QLe(lowest, op.f)
                           /\ QLt(op.f, upper))
            /\ ret.ok =>
                  LET centre == QAdd(lowest, QMul(Q(ret.val, 1), width))
                      half == QMul(Q(1, 2), width)
                  IN  /\ ret.val \in 0..(n - 1)
                      /\ QLe(QSub(centre, half), op.f)
                      /\ QLt(op.f, QAdd(centre, half))

\* a frequency a quarter bucket below lowest is rejected
C20_Witness ==
    /\ op.name = "freq_to_id"
    /\ width = Q(1, 1)
    /\ op.f = QSub(lowest, Q(1, 4))
    /\ round(QDiv(QSub(op.f, lowest), width)) = 0
    /\ ~ret.ok

(* ---- SpecMaxima ---- *)

\* the strict local maxima of the spectrum: the interior buckets (0-based)
\* that are greater than both neighbours
StrictMaxima ==
    {i \in 1..(Len(buckets) - 2) :
        buckets[i] < buckets[i + 1] /\ buckets[i + 1] > buckets[i + 2]}

\* the entries of buffer[..n] as a set, and their amplitudes in order
Entries(buffer, n) == {buffer[k] : k \in 1..n}
Descending(buffer, n) == \A k \in 1..(n - 1) : buffer[k][2] >= buffer[k + 1][2]

\* C17: when the number n of strict local maxima is at most buffer.len(),
\* find_maxima returns n, buffer[..n] holds every maximum as
\* (id_to_freq(i), bucket[i]) in descending order of amplitude, and the
\* slots from n on are as they were before the call.
C17_AllMaxima ==
    (op.name = "find_maxima"
        /\ Cardinality(StrictMaxima) <= Len(op.buffer)) =>
        LET n == Cardinality(StrictMaxima)
        IN  /\ ret.ok
            /\ ret.val.num = n
            /\ Len(ret.val.buffer) = Len(op.buffer)
            /\ Entries(ret.val.buffer, n) =
                  {<<QAdd(QMul(Q(i, 1), width), lowest), buckets[i + 1]>> :
                      i \in StrictMaxima}
            /\ Descending(ret.val.buffer, n)
            /\ \A k \in (n + 1)..Len(op.buffer) :
                  ret.val.buffer[k] = op.buffer[k]

\* two maxima found in ascending order of amplitude, returned descending
C17_Witness ==
    /\ op.name = "find_maxima"
    /\ Len(op.buffer) = 2
    /\ Cardinality(StrictMaxima) = 2
    /\ \E i, k \in StrictMaxima : i < k /\ buckets[i + 1] < buckets[k + 1]
    /\ ret.ok
    /\ ret.val.num = 2
    /\ ret.val.buffer[1][2] > ret.val.buffer[2][2]

\* C18: when there are more strict local maxima than buffer.len(),
\* find_maxima returns buffer.len() and the buffer holds exactly the
\* buffer.len() maxima of lowest frequency (lowest bucket index), whatever
\* their amplitudes, in descending order of amplitude.
C18_Truncated ==
    (op.name = "find_maxima"
        /\ Cardinality(StrictMaxima) > Len(op.buffer)) =>
        LET n == Len(op.buffer)
            kept == {i \in StrictMaxima :
                        Cardinality({k \in StrictMaxima : k < i}) < n}
        IN  /\ ret.ok
            /\ ret.val.num = n
            /\ Len(ret.val.buffer) = n
            /\ Entries(ret.val.buffer, n) =
                  {<<QAdd(QMul(Q(i, 1), width), lowest), buckets[i + 1]>> :
                      i \in kept}
            /\ Descending(ret.val.buffer, n)

\* three maxima, the largest at the highest frequency: it is dropped
C18_Witness ==
    /\ op.name = "find_maxima"
    /\ Len(op.buffer) = 2
    /\ Cardinality(StrictMaxima) = 3
    /\ \E i \in StrictMaxima :
          /\ \A k \in StrictMaxima \ {i} : k < i /\ buckets[k + 1] < buckets[i + 1]
          /\ \A k \in 1..2 : ret.val.buffer[k][2] < buckets[i + 1]
    /\ ret.ok
    /\ ret.val.num = 2

\* C19 as stated: a find_maxima call on a spectrum with more local maxima
\* than the buffer can hold fails.
C19_Fails ==
    (op.name = "find_maxima"
        /\ Cardinality(StrictMaxima) > Len(op.buffer)) => ~ret.ok

\* C19: a find_maxima call on a spectrum with more local maxima than the
\* buffer can hold does not fail and signals nothing: it returns normally,
\* and the count it returns is buffer.len(), the same as for a spectrum
\* with exactly buffer.len() maxima.
C19_Silent ==
    op.name = "find_maxima" =>
        /\ ret.ok
        /\ ret.val.num <= Len(op.buffer)
        /\ Cardinality(StrictMaxima) > Len(op.buffer)
              => ret.val.num = Len(op.buffer)

C19_Witness ==
    /\ op.name = "find_maxima"
    /\ Cardinality(StrictMaxima) = Len(op.buffer) + 1
    /\ Len(op.buffer) >= 1
    /\ ret.ok
    /\ ret.val.num = Len(op.buffer)

====
